---------------------------- MODULE Spec2Model ----------------------------
(***************************************************************************)
(* File ingestion pipeline: main.py starts a storage handle and a          *)
(* FileIngestionScheduler; the scheduler runs IngestionProcessor over      *)
(* every file of the incoming directory, once synchronously from start()   *)
(* on the main thread and then from an interval job that APScheduler's     *)
(* BackgroundScheduler runs on a worker thread.  Both threads share the    *)
(* one IngestionProcessor (its counters), the storage handle and the       *)
(* directory trees.                                                        *)
(***************************************************************************)
EXTENDS Naturals, Sequences, FiniteSets, Bags, TLC

\* ------------------------------------------------------------------ bounds

\* files dropped into the incoming directory during one run
MaxArrivals == 2
\* firings of the interval job during one run
MaxCycles == 1
\* environment failures (a storage call, a file operation or an extractor
\* that fails, an exception that escapes) during one run
MaxFaults == 1

\* calls a caller makes to the scheduler or to the storage handlers
MaxCalls == 3

\* files in incoming when a caller is handed the scheduler
MaxPresent == 1

\* relocation directories a caller has computed
MaxComputed == 2

\* ---------------------------------------------------------------- universe

None == "none"

\* the two threads of control that run _ingest_files
Threads == {"main", "timer"}

\* file names that may appear in the incoming directory
Names == {"a.csv", "b.csv", "c.jpg", "d.dat"}

\* Path(file_path).suffix.lower() of each name
Suffix(name) ==
    CASE name = "a.csv" -> ".csv"
      [] name = "b.csv" -> ".csv"
      [] name = "c.jpg" -> ".jpg"
      [] OTHER -> ".dat"

\* file contents; the content stands for its digest, "zero" is the empty file
Contents == {"h1", "h2", "zero"}

\* what may be dropped into incoming: a name with a content
Drops ==
    { <<"a.csv", "h1">>, <<"a.csv", "h2">>, <<"b.csv", "h1">>,
      <<"c.jpg", "zero">>, <<"d.dat", "h2">> }

Backends == {"mongodb", "sqlserver"}

\* FileOperations.detect_file_type
detect_file_type(name) ==
    IF Suffix(name) \in {".csv"} THEN "csv"
    ELSE IF Suffix(name) \in {".jpg", ".jpeg", ".png", ".bmp", ".gif", ".tiff"} THEN "image"
    ELSE IF Suffix(name) \in {".mp4", ".avi", ".mov", ".mkv", ".flv", ".wmv", ".webm"} THEN "video"
    ELSE "unknown"

\* MetadataExtractorFactory.EXTRACTORS: the types that have an extractor
EXTRACTORS == {"csv", "image", "video"}

\* type_map.get(file_type, 'unknown') of _move_to_validated / _move_to_failed
type_map(file_type) ==
    CASE file_type = "csv" -> "structured"
      [] file_type = "image" -> "images"
      [] file_type = "video" -> "videos"
      [] OTHER -> "unknown"

\* readings of the wall clock: two dates, each with two hours, each hour at
\* its first and its last minute
Times ==
    { [year |-> 2024, month |-> d[1], day |-> d[2], hour |-> h, minute |-> m] :
        d \in {<<1, 15>>, <<11, 5>>}, h \in {1, 12}, m \in {0, 59} }

\* the configured roots get_batch_hour_dir is called with
HourRoots == {"validated", "failed"}

\* the statuses process_file can put into its result
Outcomes ==
    { "success", "validation_failed", "metadata_extraction_failed", "duplicate",
      "database_insert_failed", "file_movement_failed", "unexpected_error" }

\* ------------------------------------------------------------------- state

VARIABLES
    backend,        \* database.type of the configuration
    handler,        \* DatabaseFactory._instance: "none" or "open"
    uniqueIndex,    \* the unique index on file_hash exists in storage
    made,           \* handler objects create_handler has constructed so far
    self_db,        \* IngestionProcessor.db: the handle taken at construction (0: None)
    records,        \* file_metadata: set of records
    logs,           \* process_logs: bag of entries
    incoming,       \* incoming directory: name -> content or None
    validated,      \* validated tree: name -> content or None
    raw,            \* raw tree: name -> content or None
    failed,         \* failed tree: name -> content or None
    is_running,     \* FileIngestionScheduler.is_running
    job,            \* the interval job is registered and the scheduler started
    processed_count,
    failed_count,
    duplicate_count,
    returns,        \* history: the process_file calls that have returned
    pc,             \* per thread: position in main / _ingest_files / process_file
    files,          \* per thread: the listing of the running cycle
    idx,            \* per thread: index of the file being processed
    submitted,      \* per thread: files handed to process_file in this cycle
    outcomes,       \* per thread: statuses process_file returned in this cycle
    result,         \* per thread: result['status'] of the running call
    metadata,       \* per thread: the extracted metadata, or NoMetadata
    reg,            \* per thread: counter value read by the += in progress
    att,            \* per thread: what the running call has done so far
    arrivals,       \* files dropped so far
    cycles,         \* interval job firings so far
    faults,         \* environment failures so far
    calls,          \* calls made by a caller of the scheduler or of the handlers
    last,           \* the last start() / stop() call and the state it found
    early,          \* per thread: its last cycle ended at once on a cycle-level error
    now,            \* datetime.now(): the local wall clock
    computed,       \* the relocation directories a caller has had computed
    db,             \* per backend: the handler's tables, driven call by call
    resp            \* per backend: what the last call on the handler returned

vars ==
    << backend, handler, uniqueIndex, made, self_db, records, logs, incoming,
       validated, raw, failed, is_running, job, processed_count, failed_count, duplicate_count,
       returns,
       pc, files, idx, submitted, outcomes, result, metadata, reg, att,
       arrivals, cycles, faults, calls, last, early, now, computed, db, resp >>

storageVars == << records, logs >>
treeVars == << validated, raw, failed >>
counterVars == << processed_count, failed_count, duplicate_count, returns >>
schedVars == << is_running, job, cycles, calls, last >>
bootVars == << backend, handler, uniqueIndex, made, self_db >>
dbVars == << db, resp >>
clockVars == << now, computed >>

\* the record of what one process_file call has done
NoAttempt ==
    [ known |-> FALSE,         \* at the call, storage held a record with the file's hash
      seen |-> 0,              \* at the call, duplicate_rejected log entries of the file
      lookup |-> "none",       \* find_by_hash: none / found / notfound / failed
      insertEnd |-> "none",    \* insert_metadata: none (not called) / ok / raised
      recId |-> 0,             \* id of the record this call left in storage, or 0
      logged |-> <<>>,         \* statuses of the process log entries this call appended
      relocated |-> {},        \* trees this call wrote the file to
      subdirs |-> {},          \* <<tree, type subfolder>> this call wrote the file to
      dest |-> {},             \* the destination paths this call wrote the file to
      left |-> FALSE,          \* this call removed the file from incoming
      bumped |-> <<>> ]        \* the counter increments this call has written

EmptyDir == [n \in Names |-> None]

\* a reading of the wall clock; the docstring's example, 2024-01-15 12:00
Noon == [year |-> 2024, month |-> 1, day |-> 15, hour |-> 12, minute |-> 0]

\* no start() / stop() call has been made yet
NoCall == [op |-> "none", running |-> FALSE]

\* the local metadata of process_file before an extractor has assigned it
NoMetadata == [file_name |-> None, file_type |-> None, file_hash |-> None]

InitRest ==
    /\ records = {}
    /\ logs = EmptyBag
    /\ validated = EmptyDir
    /\ raw = EmptyDir
    /\ failed = EmptyDir
    /\ is_running = FALSE
    /\ job = FALSE
    /\ processed_count = 0
    /\ failed_count = 0
    /\ duplicate_count = 0
    /\ returns = 0
    /\ files = [t \in Threads |-> <<>>]
    /\ idx = [t \in Threads |-> 0]
    /\ submitted = [t \in Threads |-> <<>>]
    /\ outcomes = [t \in Threads |-> <<>>]
    /\ result = [t \in Threads |-> "unknown"]
    /\ metadata = [t \in Threads |-> NoMetadata]
    /\ reg = [t \in Threads |-> 0]
    /\ att = [t \in Threads |-> NoAttempt]
    /\ cycles = 0
    /\ faults = 0
    /\ calls = 0
    /\ last = NoCall
    /\ early = [t \in Threads |-> FALSE]
    /\ now = Noon
    /\ computed = {}

\* A value is <<kind, text>>: kind "str", "bool" (Python), "np_bool" (numpy),
\* "date", "oid"; a key a dictionary does not have holds Absent.
Absent == <<"absent", "">>

\* keys of the dictionaries handed to and returned by the handlers
Keys ==
    { "file_name", "file_type", "file_hash", "status", "nullable", "message",
      "file_id", "_id", "ingested_at", "updated_at", "timestamp" }

\* keys whose values storage assigns: ids and timestamps
ServerKeys == {"_id", "ingested_at", "updated_at", "timestamp"}

NoDoc == [k \in Keys |-> Absent]

\* what a handler call returns: a status, an id (0: none), a dictionary
Answer(status, id, doc) == [status |-> status, id |-> id, doc |-> doc]

\* a backend's store: the rows of file_metadata, the rows of process_logs, and
\* the ids its insert_metadata calls returned, in call order (0: the call raised)
EmptyStore == [rows |-> <<>>, logs |-> <<>>, ids |-> <<>>]

\* the last handler call made on a backend and its answer
NoResp == [op |-> "none", answer |-> Answer("none", 0, NoDoc)]

Init ==
    /\ backend \in Backends
    /\ handler = None
    /\ uniqueIndex = FALSE
    /\ made = 0
    /\ self_db = 0
    /\ pc = [t \in Threads |-> IF t = "main" THEN "boot" ELSE "idle"]
    /\ incoming = EmptyDir
    /\ arrivals = 0
    /\ db = [b \in Backends |-> EmptyStore]
    /\ resp = [b \in Backends |-> NoResp]
    /\ InitRest


\* ------------------------------------------------------------ small helpers

Upd(f, t, v) == [f EXCEPT ![t] = v]

\* the ways a step of the environment can end: TRUE it works, FALSE it fails
Chance == IF faults < MaxFaults THEN BOOLEAN ELSE {TRUE}

\* the file the running call of thread t is about
Cur(t) == files[t][idx[t]]

\* every order in which os.listdir may return the names present in dir
Listings(dir) ==
    LET present == {n \in Names : dir[n] # None}
        k == Cardinality(present)
    IN { s \in [1..k -> present] : \A i, j \in 1..k : i # j => s[i] # s[j] }

\* str of a one-digit number
Digit(n) == << "0", "1", "2", "3", "4", "5", "6", "7", "8", "9" >>[n + 1]

\* Pad2 as it would be if strftime did not pad with zeros
Pad2Unpadded(n) ==
    IF n < 10 THEN << Digit(n) >> ELSE << Digit(n \div 10), Digit(n % 10) >>

\* the characters of n zero-padded to two and to four places (%m %d %H, %Y)
Pad2(n) == << Digit(n \div 10), Digit(n % 10) >>
Pad4(n) == Pad2(n \div 100) \o Pad2(n % 100)

\* now.strftime("%Y%m%d_%H00")
batch_hour(time) ==
    Pad4(time.year) \o Pad2(time.month) \o Pad2(time.day) \o << "_" >>
        \o Pad2(time.hour) \o << "0", "0" >>

\* A directory is its configured root followed by the hour folder joined to
\* it, if any.  FileOperations.get_batch_hour_dir
get_batch_hour_dir(base_dir, time) == [root |-> base_dir, bucket |-> batch_hour(time)]

\* the configured root itself
Root(base_dir) == [root |-> base_dir, bucket |-> << >>]

\* os.path.join(dir, type_map.get(file_type, 'unknown'))
target_dir(dir, file_type) ==
    [root |-> dir.root, bucket |-> dir.bucket, sub |-> type_map(file_type)]

\* os.path.join(os.path.join(dir, type_map.get(file_type, 'unknown')), file_name)
Destination(dir, file_type, name) ==
    [root |-> dir.root, bucket |-> dir.bucket, sub |-> type_map(file_type), name |-> name]

\* the counter a call with this status increments
CounterOf(status) ==
    IF status = "success" THEN "processed"
    ELSE IF status = "duplicate" THEN "duplicates"
    ELSE "failed"

CounterValue(c) ==
    IF c = "processed" THEN processed_count
    ELSE IF c = "duplicates" THEN duplicate_count
    ELSE failed_count

\* extractor.validate_file: the file exists and is well formed (not empty)
extractor_validate(name) == incoming[name] # None /\ incoming[name] # "zero"

\* validate_file as it would be if it called a validator without looking the
\* extractor up by file type
validate_fileAnyType(name) == extractor_validate(name)

\* MetadataExtractorFactory.validate_file
validate_file(name) ==
    IF detect_file_type(name) \notin EXTRACTORS THEN FALSE
    ELSE extractor_validate(name)

\* the metadata dictionary an extractor builds for a file
ExtractedMetadata(name) ==
    [ file_name |-> name,
      file_type |-> detect_file_type(name),
      file_hash |-> incoming[name] ]

\* the row / document insert_metadata writes (the id is server-assigned)
NewRecord(md) ==
    [ id |-> Cardinality(records) + 1,
      file_name |-> md.file_name,
      file_type |-> md.file_type,
      file_hash |-> md.file_hash,
      status |-> "validated" ]

\* find_by_hash: the stored records with this hash
find_by_hash(h) == {r \in records : r.file_hash = h}

\* the unique index on file_hash rejects the insert
DuplicateKey(md) == uniqueIndex /\ find_by_hash(md.file_hash) # {}

\* how insert_metadata can end.  "ok": the id is returned.  "error": the
\* statement fails and nothing is stored.  "after_commit" (sqlserver): commit()
\* has run and the fetch of SCOPE_IDENTITY that follows it raises.
InsertEnds(b) ==
    IF b = "sqlserver" THEN {"ok", "error", "after_commit"} ELSE {"ok", "error"}

\* json.dumps(metadata) of sqlserver.insert_metadata raises TypeError: the
\* schema of a CSV file holds 'nullable': df[col].isnull().any(), a numpy.bool_
json_dumps_raises(md) == md.file_type = "csv"

LogEntry(name, status) == [file_name |-> name, status |-> status]

\* insert_process_log, when storage accepts it
Appended(entry) == logs (+) SetToBag({entry})

\* the record of a call that starts on the file called name
StartAttempt(name) ==
    [ NoAttempt EXCEPT
        !.known = incoming[name] # None /\ find_by_hash(incoming[name]) # {},
        !.seen = CopiesIn(LogEntry(name, "duplicate_rejected"), logs) ]

\* ------------------------------------------------------------ environment

\* a failed ending uses up one of the failures of the run
Charge(ok) == faults' = IF ok THEN faults ELSE faults + 1

\* a file is dropped into the incoming directory
Arrive(n, c) ==
    /\ arrivals < MaxArrivals
    /\ <<n, c>> \in Drops
    /\ incoming[n] = None
    /\ incoming' = Upd(incoming, n, c)
    /\ arrivals' = arrivals + 1
    /\ UNCHANGED << dbVars, early, clockVars, bootVars, storageVars, treeVars, counterVars, schedVars, pc,
                    files, idx, submitted, outcomes, result, metadata, reg, att,
                    faults >>

\* ------------------------------------------------------------------ main.py

\* the handle DatabaseFactory.get_handler returns: the registered instance, the
\* last one constructed, or 0 for None
get_handler == IF handler = None THEN 0 ELSE made

\* create_handler as it would be if it registered the new handler before
\* connect() has answered
DatabaseFactory_create_handlerEager(raised) ==
    IF handler # None
    THEN /\ ~raised
         /\ UNCHANGED << handler, uniqueIndex, made, faults >>
    ELSE /\ made' = made + 1
         /\ handler' = "open"
         /\ \E connected \in Chance :
              IF connected
              THEN \E indexed \in Chance :
                     /\ ~raised
                     /\ uniqueIndex' = indexed
                     /\ Charge(indexed)
              ELSE /\ raised
                   /\ uniqueIndex' = uniqueIndex
                   /\ Charge(connected)

\* DatabaseFactory.create_handler: the registered instance if there is one;
\* otherwise a new handler object, connect, then create_indexes whose result is
\* not looked at, then the registration. raised: the call ends in an exception
DatabaseFactory_create_handler(raised) ==
    IF handler # None
    THEN /\ ~raised
         /\ UNCHANGED << handler, uniqueIndex, made, faults >>
    ELSE /\ made' = made + 1
         /\ \E connected \in Chance :
              IF connected
              THEN \E indexed \in Chance :
                     /\ ~raised
                     /\ handler' = "open"
                     /\ uniqueIndex' = indexed
                     /\ Charge(indexed)
              ELSE /\ raised
                   /\ handler' = None
                   /\ uniqueIndex' = uniqueIndex
                   /\ Charge(connected)

\* main: db = DatabaseFactory.create_handler(); an exception ends the process
\* through the finally clause, whose close() finds nothing registered
create_handler ==
    /\ pc["main"] = "boot"
    /\ \E raised \in BOOLEAN :
         /\ DatabaseFactory_create_handler(raised)
         /\ pc' = Upd(pc, "main", IF raised THEN "exited" ELSE "health")
    /\ UNCHANGED << dbVars, early, clockVars, backend, self_db, storageVars, incoming, treeVars, counterVars,
                    schedVars, files, idx, submitted, outcomes, result, metadata,
                    reg, att, arrivals >>

\* health_check as it would be if main did not look at the result of
\* db.health_check()
health_checkUnheeded ==
    /\ pc["main"] = "health"
    /\ \E healthy \in Chance :
         /\ pc' = Upd(pc, "main", "start")
         /\ handler' = handler
         /\ self_db' = get_handler
         /\ Charge(healthy)
    /\ UNCHANGED << dbVars, early, clockVars, backend, uniqueIndex, made, storageVars, incoming, treeVars,
                    counterVars, schedVars, files, idx, submitted, outcomes,
                    result, metadata, reg, att, arrivals >>

\* main: db.health_check(); a failed check exits through the finally clause,
\* which closes the handler; after a good one main builds the scheduler, whose
\* IngestionProcessor takes the registered handle
health_check ==
    /\ pc["main"] = "health"
    /\ \E healthy \in Chance :
         /\ IF healthy
            THEN /\ pc' = Upd(pc, "main", "start")
                 /\ handler' = handler
                 /\ self_db' = get_handler
            ELSE /\ pc' = Upd(pc, "main", "exited")
                 /\ handler' = None
                 /\ self_db' = self_db
         /\ Charge(healthy)
    /\ UNCHANGED << dbVars, early, clockVars, backend, uniqueIndex, made, storageVars, incoming, treeVars,
                    counterVars, schedVars, files, idx, submitted, outcomes,
                    result, metadata, reg, att, arrivals >>

\* start as it would be if it returned without the initial _ingest_files()
startWithoutCycle ==
    /\ pc["main"] = "start"
    /\ last' = [op |-> "start", running |-> is_running]
    /\ IF is_running
       THEN /\ pc' = Upd(pc, "main", "sleep")
            /\ UNCHANGED << job, is_running >>
       ELSE /\ job' = TRUE
            /\ is_running' = TRUE
            /\ pc' = Upd(pc, "main", "sleep")
    /\ UNCHANGED << dbVars, early, clockVars, bootVars, storageVars, incoming, treeVars, counterVars,
                    cycles, calls, files, idx, submitted, outcomes, result,
                    metadata, reg, att, arrivals, faults >>

\* start as it would be without the is_running check at its head
startUnguarded ==
    /\ pc["main"] = "start"
    /\ last' = [op |-> "start", running |-> is_running]
    /\ job' = TRUE
    /\ is_running' = TRUE
    /\ pc' = Upd(pc, "main", "ingest")
    /\ UNCHANGED << dbVars, early, clockVars, bootVars, storageVars, incoming, treeVars, counterVars,
                    cycles, calls, files, idx, submitted, outcomes, result,
                    metadata, reg, att, arrivals, faults >>

\* FileIngestionScheduler.start: on a running scheduler it returns at once;
\* otherwise it registers the interval job, starts the background scheduler,
\* sets is_running and runs the initial cycle on the calling thread
start ==
    /\ pc["main"] = "start"
    /\ last' = [op |-> "start", running |-> is_running]
    /\ IF is_running
       THEN /\ pc' = Upd(pc, "main", "sleep")
            /\ UNCHANGED << job, is_running >>
       ELSE /\ job' = TRUE
            /\ is_running' = TRUE
            /\ pc' = Upd(pc, "main", "ingest")
    /\ UNCHANGED << dbVars, early, clockVars, bootVars, storageVars, incoming, treeVars, counterVars,
                    cycles, calls, files, idx, submitted, outcomes, result,
                    metadata, reg, att, arrivals, faults >>

\* the interval trigger fires; the job's default max_instances = 1 lets the
\* background scheduler run it only while no earlier run of the job is active
TimerFire ==
    /\ job
    /\ cycles < MaxCycles
    /\ pc["timer"] = "idle"
    /\ pc' = Upd(pc, "timer", "ingest")
    /\ cycles' = cycles + 1
    /\ UNCHANGED << dbVars, early, clockVars, bootVars, storageVars, incoming, treeVars, counterVars,
                    is_running, job, calls, last, files, idx, submitted,
                    outcomes, result, metadata, reg, att, arrivals, faults >>

\* where the main thread goes when stop() returns: on in the signal handler,
\* on in the finally clause of main, or back to the caller
AfterStop(p) ==
    CASE p = "sigstop" -> "close"
      [] p = "finstop" -> "finclose"
      [] OTHER -> "sleep"

\* stop as it would be if it cleared is_running without shutting the
\* background scheduler down
stopKeepingJob ==
    /\ pc["main"] \in {"sigstop", "finstop", "apistop"}
    /\ IF job
       THEN /\ job' = job
            /\ is_running' = FALSE
       ELSE UNCHANGED << job, is_running >>
    /\ last' = [op |-> "stop", running |-> job]
    /\ pc' = Upd(pc, "main", AfterStop(pc["main"]))
    /\ UNCHANGED << dbVars, early, clockVars, bootVars, storageVars, incoming, treeVars, counterVars,
                    cycles, calls, files, idx, submitted, outcomes, result,
                    metadata, reg, att, arrivals, faults >>

\* stop as it would be if shutdown() did not wait for the running job
stopNotWaiting ==
    /\ pc["main"] \in {"sigstop", "finstop", "apistop"}
    /\ IF job
       THEN /\ job' = FALSE
            /\ is_running' = FALSE
       ELSE UNCHANGED << job, is_running >>
    /\ last' = [op |-> "stop", running |-> job]
    /\ pc' = Upd(pc, "main", AfterStop(pc["main"]))
    /\ UNCHANGED << dbVars, early, clockVars, bootVars, storageVars, incoming, treeVars, counterVars,
                    cycles, calls, files, idx, submitted, outcomes, result,
                    metadata, reg, att, arrivals, faults >>

\* FileIngestionScheduler.stop: with the background scheduler running,
\* shutdown() waits for the running job, then is_running is cleared; with the
\* background scheduler not running nothing is done
stop ==
    /\ pc["main"] \in {"sigstop", "finstop", "apistop"}
    /\ IF job
       THEN /\ pc["timer"] = "idle"
            /\ job' = FALSE
            /\ is_running' = FALSE
       ELSE UNCHANGED << job, is_running >>
    /\ last' = [op |-> "stop", running |-> job]
    /\ pc' = Upd(pc, "main", AfterStop(pc["main"]))
    /\ UNCHANGED << dbVars, early, clockVars, bootVars, storageVars, incoming, treeVars, counterVars,
                    cycles, calls, files, idx, submitted, outcomes, result,
                    metadata, reg, att, arrivals, faults >>

\* DatabaseFactory.close, called by the signal handler and again by the
\* finally clause of main, which first calls stop() if main has a scheduler
close ==
    /\ pc["main"] \in {"close", "finclose"}
    /\ handler' = None
    /\ pc' = Upd(pc, "main",
                 IF pc["main"] = "finclose" THEN "done"
                 ELSE IF last.op # "none" THEN "finstop" ELSE "finclose")
    /\ UNCHANGED << dbVars, early, clockVars, backend, uniqueIndex, made, self_db, storageVars, incoming, treeVars,
                    counterVars, schedVars, files, idx, submitted, outcomes,
                    result, metadata, reg, att, arrivals, faults >>

\* the positions of the main thread at which SIGINT is handled
SignalPoints ==
    { "boot", "health", "start", "sleep", "ingest", "validate", "extract",
      "dedup", "insert", "copy", "moveraw", "tofailed", "bump", "bumpw", "ret",
      "stats" }

\* SIGINT: signal_handler runs on the main thread in place of what the main
\* thread was doing; its sys.exit(0) unwinds that work, so it is never resumed
Signal ==
    /\ pc["main"] \in SignalPoints
    /\ pc' = Upd(pc, "main", IF last.op # "none" THEN "sigstop" ELSE "close")
    /\ files' = Upd(files, "main", <<>>)
    /\ idx' = Upd(idx, "main", 0)
    /\ submitted' = Upd(submitted, "main", <<>>)
    /\ outcomes' = Upd(outcomes, "main", <<>>)
    /\ result' = Upd(result, "main", "unknown")
    /\ metadata' = Upd(metadata, "main", NoMetadata)
    /\ reg' = Upd(reg, "main", 0)
    /\ att' = Upd(att, "main", NoAttempt)
    /\ UNCHANGED << dbVars, early, clockVars, bootVars, storageVars, incoming, treeVars, counterVars,
                    schedVars, arrivals, faults >>

\* a caller that holds the scheduler calls start()
CallStart ==
    /\ pc["main"] = "sleep"
    /\ calls < MaxCalls
    /\ calls' = calls + 1
    /\ pc' = Upd(pc, "main", "start")
    /\ UNCHANGED << dbVars, early, clockVars, bootVars, storageVars, incoming, treeVars, counterVars,
                    is_running, job, cycles, last, files, idx, submitted,
                    outcomes, result, metadata, reg, att, arrivals, faults >>

\* a caller that holds the scheduler calls stop()
CallStop ==
    /\ pc["main"] = "sleep"
    /\ calls < MaxCalls
    /\ calls' = calls + 1
    /\ pc' = Upd(pc, "main", "apistop")
    /\ UNCHANGED << dbVars, early, clockVars, bootVars, storageVars, incoming, treeVars, counterVars,
                    is_running, job, cycles, last, files, idx, submitted,
                    outcomes, result, metadata, reg, att, arrivals, faults >>

\* where a thread goes when _ingest_files returns
AfterCycle(t) == IF t = "main" THEN "sleep" ELSE "idle"

\* ------------------------------------------------- scheduler._ingest_files

\* IngestList as it would be if a cycle-level error took the scheduler down
IngestListStopping(t) ==
    /\ pc[t] = "ingest"
    /\ \E listed \in Chance : \E listing \in Listings(incoming) :
         /\ IF ~listed \/ listing = <<>>
            THEN /\ pc' = Upd(pc, t, AfterCycle(t))
                 /\ is_running' = (listed /\ is_running)
                 /\ job' = (listed /\ job)
                 /\ UNCHANGED << files, idx, submitted, att >>
            ELSE /\ files' = Upd(files, t, listing)
                 /\ idx' = Upd(idx, t, 1)
                 /\ submitted' = Upd(submitted, t, << listing[1] >>)
                 /\ att' = Upd(att, t, StartAttempt(listing[1]))
                 /\ pc' = Upd(pc, t, "validate")
                 /\ UNCHANGED << is_running, job >>
         /\ early' = Upd(early, t, ~listed)
         /\ Charge(listed)
    /\ UNCHANGED << dbVars, clockVars, bootVars, storageVars, incoming, treeVars,
                    counterVars, cycles, calls, last, outcomes, result, metadata,
                    reg, arrivals >>

\* _ingest_files up to the first process_file call: the incoming directory is
\* looked up and listed.  When it is absent, or list_files fails and returns
\* what it has (nothing), the cycle returns at once, as it does with no file
IngestList(t) ==
    /\ pc[t] = "ingest"
    /\ \E listed \in Chance : \E listing \in Listings(incoming) :
         /\ IF ~listed \/ listing = <<>>
            THEN /\ pc' = Upd(pc, t, AfterCycle(t))
                 /\ UNCHANGED << files, idx, submitted, att >>
            ELSE /\ files' = Upd(files, t, listing)
                 /\ idx' = Upd(idx, t, 1)
                 /\ submitted' = Upd(submitted, t, << listing[1] >>)
                 /\ att' = Upd(att, t, StartAttempt(listing[1]))
                 /\ pc' = Upd(pc, t, "validate")
         /\ UNCHANGED << is_running, job >>
         /\ early' = Upd(early, t, ~listed)
         /\ Charge(listed)
    /\ UNCHANGED << dbVars, clockVars, bootVars, storageVars, incoming, treeVars,
                    counterVars, cycles, calls, last, outcomes, result, metadata,
                    reg, arrivals >>

\* LoopNext as it would be if a failed file ended the loop (a per-file error
\* aborting the batch)
LoopNextAborting(t) ==
    /\ pc[t] = "ret"
    /\ outcomes' = Upd(outcomes, t, Append(outcomes[t], result[t]))
    /\ IF idx[t] < Len(files[t]) /\ result[t] \in {"success", "duplicate"}
       THEN /\ idx' = Upd(idx, t, idx[t] + 1)
            /\ submitted' = Upd(submitted, t, Append(submitted[t], files[t][idx[t] + 1]))
            /\ result' = Upd(result, t, "unknown")
            /\ metadata' = Upd(metadata, t, NoMetadata)
            /\ att' = Upd(att, t, StartAttempt(files[t][idx[t] + 1]))
            /\ pc' = Upd(pc, t, "validate")
       ELSE /\ pc' = Upd(pc, t, "stats")
            /\ UNCHANGED << idx, submitted, result, metadata, att >>
    /\ UNCHANGED << dbVars, early, clockVars, bootVars, storageVars, incoming, treeVars, counterVars,
                    schedVars, files, reg, arrivals, faults >>

\* the for loop of _ingest_files after process_file has returned: log the
\* result and hand the next file of the listing to process_file, whose first
\* statement builds a result with status 'unknown'
LoopNext(t) ==
    /\ pc[t] = "ret"
    /\ outcomes' = Upd(outcomes, t, Append(outcomes[t], result[t]))
    /\ IF idx[t] < Len(files[t])
       THEN /\ idx' = Upd(idx, t, idx[t] + 1)
            /\ submitted' = Upd(submitted, t, Append(submitted[t], files[t][idx[t] + 1]))
            /\ result' = Upd(result, t, "unknown")
            /\ metadata' = Upd(metadata, t, NoMetadata)
            /\ att' = Upd(att, t, StartAttempt(files[t][idx[t] + 1]))
            /\ pc' = Upd(pc, t, "validate")
       ELSE /\ pc' = Upd(pc, t, "stats")
            /\ UNCHANGED << idx, submitted, result, metadata, att >>
    /\ UNCHANGED << dbVars, early, clockVars, bootVars, storageVars, incoming, treeVars, counterVars,
                    schedVars, files, reg, arrivals, faults >>

\* the end of _ingest_files: get_statistics is logged and the cycle returns
CycleStats(t) ==
    /\ pc[t] = "stats"
    /\ pc' = Upd(pc, t, AfterCycle(t))
    /\ files' = Upd(files, t, <<>>)
    /\ idx' = Upd(idx, t, 0)
    /\ submitted' = Upd(submitted, t, <<>>)
    /\ outcomes' = Upd(outcomes, t, <<>>)
    /\ result' = Upd(result, t, "unknown")
    /\ metadata' = Upd(metadata, t, NoMetadata)
    /\ att' = Upd(att, t, NoAttempt)
    /\ UNCHANGED << dbVars, early, clockVars, bootVars, storageVars, incoming, treeVars, counterVars,
                    schedVars, reg, arrivals, faults >>

\* ------------------------------------------------- processor.process_file

\* Validate as it would be if the failure branch did not set result['status']
ValidateKeepingStatus(t) ==
    /\ pc[t] = "validate"
    /\ IF validate_file(Cur(t))
       THEN pc' = Upd(pc, t, "extract")
       ELSE pc' = Upd(pc, t, "tofailed")
    /\ UNCHANGED << dbVars, early, clockVars, bootVars, storageVars, incoming, treeVars, counterVars,
                    schedVars, files, idx, submitted, outcomes, result, metadata,
                    reg, att, arrivals, faults >>

\* Step 1: MetadataExtractorFactory.validate_file
Validate(t) ==
    /\ pc[t] = "validate"
    /\ IF validate_file(Cur(t))
       THEN /\ pc' = Upd(pc, t, "extract")
            /\ result' = result
       ELSE /\ result' = Upd(result, t, "validation_failed")
            /\ pc' = Upd(pc, t, "tofailed")
    /\ UNCHANGED << dbVars, early, clockVars, bootVars, storageVars, incoming, treeVars, counterVars,
                    schedVars, files, idx, submitted, outcomes, metadata, reg,
                    att, arrivals, faults >>

\* extract_metadata gets as far as the extractor: the type is not unknown, it
\* has an extractor, and the file validates again
extractable(name) ==
    /\ detect_file_type(name) # "unknown"
    /\ detect_file_type(name) \in EXTRACTORS
    /\ validate_file(name)

\* Step 2: MetadataExtractorFactory.extract_metadata: it validates again and
\* calls the extractor, which may raise while it reads the file
Extract(t) ==
    /\ pc[t] = "extract"
    /\ \E readable \in (IF extractable(Cur(t)) THEN Chance ELSE {TRUE}) :
         /\ IF readable /\ extractable(Cur(t))
            THEN /\ metadata' = Upd(metadata, t, ExtractedMetadata(Cur(t)))
                 /\ pc' = Upd(pc, t, "dedup")
                 /\ result' = result
            ELSE /\ result' = Upd(result, t, "metadata_extraction_failed")
                 /\ pc' = Upd(pc, t, "tofailed")
                 /\ metadata' = metadata
         /\ Charge(readable)
    /\ UNCHANGED << dbVars, early, clockVars, bootVars, storageVars, incoming, treeVars, counterVars,
                    schedVars, files, idx, submitted, outcomes, reg, att,
                    arrivals >>

\* DeduplicationService.is_duplicate: (found, lookup) where lookup tells how
\* find_by_hash ended; a missing handler and a failed query both give
\* (False, None)
is_duplicate(h, answered) ==
    IF handler = None \/ ~answered THEN << FALSE, "failed" >>
    ELSE IF find_by_hash(h) # {} THEN << TRUE, "found" >>
    ELSE << FALSE, "notfound" >>

\* Dedup as it would be if a duplicate took the failed path of the other
\* terminal outcomes (relocation to the failed tree) instead of returning
DedupRelocating(t) ==
    /\ pc[t] = "dedup"
    /\ \E answered \in Chance :
         LET dup == is_duplicate(metadata[t].file_hash, answered)
         IN  IF dup[1]
             THEN /\ result' = Upd(result, t, "duplicate")
                  /\ att' = Upd(att, t, [att[t] EXCEPT !.lookup = dup[2]])
                  /\ pc' = Upd(pc, t, "tofailed")
                  /\ Charge(answered)
                  /\ logs' = logs
             ELSE /\ att' = Upd(att, t, [att[t] EXCEPT !.lookup = dup[2]])
                  /\ pc' = Upd(pc, t, "insert")
                  /\ Charge(answered)
                  /\ UNCHANGED << result, logs >>
    /\ UNCHANGED << dbVars, early, clockVars, bootVars, records, incoming, treeVars, counterVars, schedVars,
                    files, idx, submitted, outcomes, metadata, reg, arrivals >>

\* Step 3: the duplicate check; a duplicate is logged by
\* DeduplicationService.log_duplicate, which swallows a failed log write
Dedup(t) ==
    /\ pc[t] = "dedup"
    /\ \E answered \in Chance :
         LET dup == is_duplicate(metadata[t].file_hash, answered)
         IN  IF dup[1]
             THEN \E written \in Chance :
                    /\ result' = Upd(result, t, "duplicate")
                    /\ logs' = IF written
                               THEN Appended(LogEntry(metadata[t].file_name, "duplicate_rejected"))
                               ELSE logs
                    /\ att' = Upd(att, t, [att[t] EXCEPT
                                  !.lookup = dup[2],
                                  !.logged = IF written
                                             THEN Append(@, "duplicate_rejected")
                                             ELSE @])
                    /\ pc' = Upd(pc, t, "bump")
                    /\ Charge(written)
             ELSE /\ att' = Upd(att, t, [att[t] EXCEPT !.lookup = dup[2]])
                  /\ pc' = Upd(pc, t, "insert")
                  /\ Charge(answered)
                  /\ UNCHANGED << result, logs >>
    /\ UNCHANGED << dbVars, early, clockVars, bootVars, records, incoming, treeVars, counterVars, schedVars,
                    files, idx, submitted, outcomes, metadata, reg, arrivals >>

\* an exception escapes a statement of the try body and reaches the handler
\* at the end of process_file
Unexpected(t) ==
    /\ pc[t] = "dedup"
    /\ faults < MaxFaults
    /\ faults' = faults + 1
    /\ result' = Upd(result, t, "unexpected_error")
    /\ pc' = Upd(pc, t, "tofailed")
    /\ UNCHANGED << dbVars, early, clockVars, bootVars, storageVars, incoming, treeVars, counterVars,
                    schedVars, files, idx, submitted, outcomes, metadata, reg,
                    att, arrivals >>

\* Insert as it would be if insert_metadata were an upsert keyed on the content
\* hash: the stored record with the hash of the file is replaced by the new one
InsertReplacing(t) ==
    /\ pc[t] = "insert"
    /\ \E end \in (IF backend = "sqlserver" /\ json_dumps_raises(metadata[t])
                   THEN {"error"}
                   ELSE IF faults < MaxFaults THEN InsertEnds(backend) ELSE {"ok"}) :
         LET rec == NewRecord(metadata[t])
             stored == end # "error"
         IN  /\ records' = IF stored
                           THEN (records \ find_by_hash(metadata[t].file_hash)) \cup {rec}
                           ELSE records
             /\ att' = Upd(att, t, [att[t] EXCEPT
                           !.insertEnd = IF end = "ok" /\ stored THEN "ok" ELSE "raised",
                           !.recId = IF stored THEN rec.id ELSE 0])
             /\ IF stored /\ end = "ok"
                THEN /\ pc' = Upd(pc, t, "copy")
                     /\ result' = result
                ELSE /\ result' = Upd(result, t, "database_insert_failed")
                     /\ pc' = Upd(pc, t, "tofailed")
             /\ Charge(end = "ok" \/ (backend = "sqlserver"
                                        /\ json_dumps_raises(metadata[t])))
    /\ UNCHANGED << dbVars, early, clockVars, bootVars, logs, incoming, treeVars, counterVars, schedVars,
                    files, idx, submitted, outcomes, metadata, reg, arrivals >>

\* Insert as it would be if process_file went on to the relocation whether or
\* not insert_metadata had stored the record
InsertUnheeded(t) ==
    /\ pc[t] = "insert"
    /\ \E end \in (IF backend = "sqlserver" /\ json_dumps_raises(metadata[t])
                   THEN {"error"}
                   ELSE IF faults < MaxFaults THEN InsertEnds(backend) ELSE {"ok"}) :
         LET rec == NewRecord(metadata[t])
             stored == end # "error" /\ ~DuplicateKey(metadata[t])
         IN  /\ records' = IF stored THEN records \cup {rec} ELSE records
             /\ att' = Upd(att, t, [att[t] EXCEPT
                           !.insertEnd = IF end = "ok" /\ stored THEN "ok" ELSE "raised",
                           !.recId = IF stored THEN rec.id ELSE 0])
             /\ pc' = Upd(pc, t, "copy")
             /\ result' = result
             /\ Charge(end = "ok" \/ (backend = "sqlserver"
                                        /\ json_dumps_raises(metadata[t])))
    /\ UNCHANGED << dbVars, early, clockVars, bootVars, logs, incoming, treeVars, counterVars, schedVars,
                    files, idx, submitted, outcomes, metadata, reg, arrivals >>

\* Step 4: self.db.insert_metadata inside its own try
Insert(t) ==
    /\ pc[t] = "insert"
    /\ \E end \in (IF backend = "sqlserver" /\ json_dumps_raises(metadata[t])
                   THEN {"error"}
                   ELSE IF faults < MaxFaults THEN InsertEnds(backend) ELSE {"ok"}) :
         LET rec == NewRecord(metadata[t])
             stored == end # "error" /\ ~DuplicateKey(metadata[t])
         IN  /\ records' = IF stored THEN records \cup {rec} ELSE records
             /\ att' = Upd(att, t, [att[t] EXCEPT
                           !.insertEnd = IF end = "ok" /\ stored THEN "ok" ELSE "raised",
                           !.recId = IF stored THEN rec.id ELSE 0])
             /\ IF stored /\ end = "ok"
                THEN /\ pc' = Upd(pc, t, "copy")
                     /\ result' = result
                ELSE /\ result' = Upd(result, t, "database_insert_failed")
                     /\ pc' = Upd(pc, t, "tofailed")
             /\ Charge(end = "ok" \/ (backend = "sqlserver"
                                        /\ json_dumps_raises(metadata[t])))
    /\ UNCHANGED << dbVars, early, clockVars, bootVars, logs, incoming, treeVars, counterVars, schedVars,
                    files, idx, submitted, outcomes, metadata, reg, arrivals >>

\* Step 5, first half: _move_to_validated copies the file into the validated
\* tree; a failed copy makes _move_to_validated return False
Copy(t) ==
    /\ pc[t] = "copy"
    /\ \E copied \in (IF incoming[Cur(t)] # None THEN Chance ELSE {FALSE}) :
         /\ IF copied
            THEN /\ validated' = Upd(validated, Cur(t), incoming[Cur(t)])
                 /\ att' = Upd(att, t, [att[t] EXCEPT
                               !.relocated = @ \cup {"validated"},
                               !.subdirs = @ \cup {<<"validated", type_map(metadata[t].file_type)>>},
                               !.dest = @ \cup {Destination(get_batch_hour_dir("validated", now),
                                                            metadata[t].file_type, Cur(t))}])
                 /\ pc' = Upd(pc, t, "moveraw")
                 /\ result' = result
            ELSE /\ result' = Upd(result, t, "file_movement_failed")
                 /\ pc' = Upd(pc, t, "tofailed")
                 /\ UNCHANGED << validated, att >>
         /\ Charge(copied \/ incoming[Cur(t)] = None)
    /\ UNCHANGED << dbVars, early, clockVars, bootVars, storageVars, incoming, raw, failed, counterVars,
                    schedVars, files, idx, submitted, outcomes, metadata, reg,
                    arrivals >>

\* Step 5, second half: the original is moved to the raw tree; the result of
\* move_file is not looked at and _move_to_validated returns True
MoveRaw(t) ==
    /\ pc[t] = "moveraw"
    /\ \E moved \in (IF incoming[Cur(t)] # None THEN Chance ELSE {FALSE}) :
         /\ IF moved
            THEN /\ raw' = Upd(raw, Cur(t), incoming[Cur(t)])
                 /\ incoming' = Upd(incoming, Cur(t), None)
                 /\ att' = Upd(att, t, [att[t] EXCEPT
                               !.relocated = @ \cup {"raw"},
                               !.subdirs = @ \cup {<<"raw", type_map(metadata[t].file_type)>>},
                               !.dest = @ \cup {Destination(Root("raw"),
                                                            metadata[t].file_type, Cur(t))},
                               !.left = TRUE])
            ELSE UNCHANGED << raw, incoming, att >>
         /\ Charge(moved \/ incoming[Cur(t)] = None)
    /\ result' = Upd(result, t, "success")
    /\ pc' = Upd(pc, t, "bump")
    /\ UNCHANGED << dbVars, early, clockVars, bootVars, storageVars, validated, failed, counterVars,
                    schedVars, files, idx, submitted, outcomes, metadata, reg,
                    arrivals >>

\* _move_to_failed: move the file to the failed tree and, only when the move
\* succeeded, write a 'failed' process log entry through _log_process, which
\* swallows a failed log write
MoveToFailed(t) ==
    /\ pc[t] = "tofailed"
    /\ \E moved \in (IF incoming[Cur(t)] # None THEN Chance ELSE {FALSE}) :
         IF moved
         THEN \E written \in Chance :
                /\ failed' = Upd(failed, Cur(t), incoming[Cur(t)])
                /\ incoming' = Upd(incoming, Cur(t), None)
                /\ logs' = IF written THEN Appended(LogEntry(Cur(t), "failed")) ELSE logs
                /\ att' = Upd(att, t, [att[t] EXCEPT
                              !.relocated = @ \cup {"failed"},
                              !.subdirs = @ \cup {<<"failed", type_map(detect_file_type(Cur(t)))>>},
                              !.dest = @ \cup {Destination(get_batch_hour_dir("failed", now),
                                                           detect_file_type(Cur(t)), Cur(t))},
                              !.left = TRUE,
                              !.logged = IF written THEN Append(@, "failed") ELSE @])
                /\ Charge(written)
         ELSE /\ Charge(incoming[Cur(t)] = None)
              /\ UNCHANGED << failed, incoming, logs, att >>
    /\ pc' = Upd(pc, t, "bump")
    /\ UNCHANGED << dbVars, early, clockVars, bootVars, records, validated, raw, counterVars, schedVars,
                    files, idx, submitted, outcomes, result, metadata, reg,
                    arrivals >>

\* the read half of self.<counter> += 1
BumpRead(t) ==
    /\ pc[t] = "bump"
    /\ reg' = Upd(reg, t, CounterValue(CounterOf(result[t])))
    /\ pc' = Upd(pc, t, "bumpw")
    /\ UNCHANGED << dbVars, early, clockVars, bootVars, storageVars, incoming, treeVars, counterVars,
                    schedVars, files, idx, submitted, outcomes, result, metadata,
                    att, arrivals, faults >>

\* the write half of self.<counter> += 1; on success the 'success' process
\* log entry follows it, then process_file returns its result
BumpWrite(t) ==
    /\ pc[t] = "bumpw"
    /\ LET c == CounterOf(result[t])
       IN  /\ processed_count' = IF c = "processed" THEN reg[t] + 1 ELSE processed_count
           /\ duplicate_count' = IF c = "duplicates" THEN reg[t] + 1 ELSE duplicate_count
           /\ failed_count' = IF c = "failed" THEN reg[t] + 1 ELSE failed_count
           /\ returns' = returns + 1
           /\ \E written \in (IF result[t] = "success" THEN Chance ELSE {TRUE}) :
                LET logging == written /\ result[t] = "success"
                IN  /\ logs' = IF logging
                               THEN Appended(LogEntry(metadata[t].file_name, "success"))
                               ELSE logs
                    /\ att' = Upd(att, t, [att[t] EXCEPT
                                  !.bumped = Append(@, [counter |-> c,
                                                        exact |-> reg[t] = CounterValue(c)]),
                                  !.logged = IF logging THEN Append(@, "success") ELSE @])
                    /\ Charge(written)
    /\ reg' = Upd(reg, t, 0)
    /\ pc' = Upd(pc, t, "ret")
    /\ UNCHANGED << dbVars, early, clockVars, bootVars, records, incoming, treeVars, schedVars, files, idx,
                    submitted, outcomes, result, metadata, arrivals >>

\* ------------------------------------ database.mongodb / database.sqlserver

\* the dictionary with the given <<key, value>> items
Dict(items) ==
    [k \in Keys |-> IF \E i \in items : i[1] = k
                    THEN (CHOOSE i \in items : i[1] = k)[2]
                    ELSE Absent]

\* a dictionary without ids and timestamps, numpy scalars read as their values
Logical(d) ==
    [k \in Keys |-> IF k \in ServerKeys THEN Absent
                    ELSE IF d[k][1] = "np_bool" THEN <<"bool", d[k][2]>>
                    ELSE d[k]]

\* mongodb.sanitize_for_mongo: numpy scalars become Python scalars
sanitize_for_mongo(d) ==
    [k \in Keys |-> IF d[k][1] = "np_bool" THEN <<"bool", d[k][2]>> ELSE d[k]]

\* what pymongo can encode as BSON
bson_encodable(d) == \A k \in Keys : d[k][1] # "np_bool"

\* json.dumps accepts str and bool and raises TypeError on a numpy.bool_ ...
json_serializable(d) == \A k \in Keys : d[k][1] \in {"absent", "str", "bool"}

\* ... and writes a str as a JSON string and a bool as a JSON boolean
json_dumps(d) ==
    [k \in Keys |-> IF d[k][1] = "str" THEN <<"string", d[k][2]>>
                    ELSE IF d[k][1] = "bool" THEN <<"boolean", d[k][2]>>
                    ELSE Absent]

\* json.loads
json_loads(j) ==
    [k \in Keys |-> IF j[k][1] = "string" THEN <<"str", j[k][2]>>
                    ELSE IF j[k][1] = "boolean" THEN <<"bool", j[k][2]>>
                    ELSE Absent]

\* the position in rows of the row with this id, or 0
RowOf(rows, id) ==
    IF \E i \in 1..Len(rows) : rows[i].id = id
    THEN CHOOSE i \in 1..Len(rows) : rows[i].id = id
    ELSE 0

Str(text) == <<"str", text>>

\* datetime.utcnow() / GETUTCDATE()
UtcNow == <<"date", "">>

\* what a handler operator yields: the store after the call and its answer
Outcome(st, answer) == [store |-> st, answer |-> answer]

\* the unique sparse index of mongodb.create_indexes rejects doc as the
\* document with this id (0: a new one)
MongoDuplicateKey(rows, doc, id) ==
    /\ uniqueIndex
    /\ doc["file_hash"] # Absent
    /\ \E i \in 1..Len(rows) :
         rows[i].id # id /\ rows[i].doc["file_hash"] = doc["file_hash"]

\* the unique index of sqlserver.create_indexes, not sparse, rejects the hash
SQLServerDuplicateKey(rows, hash) ==
    uniqueIndex /\ \E i \in 1..Len(rows) : rows[i].file_hash = hash

\* MongoDBHandler.insert_metadata; ok: the server accepts the statement
MongoDB_insert_metadata(st, md, ok) ==
    LET id == Len(st.rows) + 1
        clean == sanitize_for_mongo([md EXCEPT !["ingested_at"] = UtcNow])
        doc == [clean EXCEPT !["_id"] = <<"oid", "">>]
    IN  IF ok /\ ~MongoDuplicateKey(st.rows, doc, 0)
        THEN Outcome([st EXCEPT
                        !.rows = Append(@, [id |-> id, doc |-> doc,
                                            written |-> md, updated |-> FALSE]),
                        !.ids = Append(@, id)],
                     Answer("ok", id, NoDoc))
        ELSE Outcome([st EXCEPT !.ids = Append(@, 0)], Answer("raised", 0, NoDoc))

\* SQLServerHandler.insert_metadata; end as in InsertEnds
SQLServer_insert_metadata(st, md, end) ==
    LET id == Len(st.rows) + 1
        row == [id |-> id,
                file_name |-> md["file_name"],
                file_type |-> md["file_type"],
                file_hash |-> md["file_hash"],
                status |-> IF md["status"] = Absent THEN Str("validated")
                           ELSE md["status"],
                metadata_json |-> json_dumps(md),
                written |-> md, updated |-> FALSE]
    IN  IF /\ json_serializable(md)
           /\ end # "error"
           /\ ~SQLServerDuplicateKey(st.rows, md["file_hash"])
        THEN Outcome([st EXCEPT
                        !.rows = Append(@, row),
                        !.ids = Append(@, IF end = "ok" THEN id ELSE 0)],
                     IF end = "ok" THEN Answer("ok", id, NoDoc)
                     ELSE Answer("raised", 0, NoDoc))
        ELSE Outcome([st EXCEPT !.ids = Append(@, 0)], Answer("raised", 0, NoDoc))

\* MongoDBHandler.update_metadata: $set merges the given keys into the document
MongoDB_update_metadata(st, id, md, ok) ==
    LET i == RowOf(st.rows, id)
        set == [md EXCEPT !["updated_at"] = UtcNow]
        doc == [k \in Keys |-> IF set[k] # Absent THEN set[k]
                               ELSE st.rows[i].doc[k]]
    IN  IF /\ ok
           /\ i # 0
           /\ bson_encodable(set)
           /\ ~MongoDuplicateKey(st.rows, doc, id)
        THEN Outcome([st EXCEPT !.rows[i].doc = doc, !.rows[i].updated = TRUE],
                     Answer("true", 0, NoDoc))
        ELSE Outcome(st, Answer("false", 0, NoDoc))

\* SQLServerHandler.update_metadata: metadata_json and status are overwritten
SQLServer_update_metadata(st, id, md, ok) ==
    LET i == RowOf(st.rows, id)
    IN  IF json_serializable(md) /\ ok /\ i # 0
        THEN Outcome([st EXCEPT
                        !.rows[i].metadata_json = json_dumps(md),
                        !.rows[i].status = IF md["status"] = Absent
                                           THEN Str("validated") ELSE md["status"],
                        !.rows[i].updated = TRUE],
                     Answer("true", 0, NoDoc))
        ELSE Outcome(st, Answer("false", 0, NoDoc))

\* what a read of the row returns
MongoRead(row) == [row.doc EXCEPT !["_id"] = Str("")]
SQLServerRead(row) == json_loads(row.metadata_json)

\* MongoDBHandler.get_metadata
MongoDB_get_metadata(st, id, ok) ==
    LET i == RowOf(st.rows, id)
    IN  IF ok /\ i # 0 THEN Answer("found", id, MongoRead(st.rows[i]))
        ELSE Answer("none", 0, NoDoc)

\* SQLServerHandler.get_metadata
SQLServer_get_metadata(st, id, ok) ==
    LET i == RowOf(st.rows, id)
    IN  IF ok /\ i # 0 THEN Answer("found", id, SQLServerRead(st.rows[i]))
        ELSE Answer("none", 0, NoDoc)

\* MongoDBHandler.find_by_hash: the answers find_one may give; with several
\* matching documents and no sort, which one comes first is up to the server
MongoDB_find_by_hash(st, hash, ok) ==
    LET hits == {i \in 1..Len(st.rows) : st.rows[i].doc["file_hash"] = Str(hash)}
    IN  IF ok /\ hits # {}
        THEN {Answer("found", st.rows[i].id, MongoRead(st.rows[i])) : i \in hits}
        ELSE {Answer("none", 0, NoDoc)}

\* SQLServerHandler.find_by_hash: the answers fetchone may give
SQLServer_find_by_hash(st, hash, ok) ==
    LET hits == {i \in 1..Len(st.rows) : st.rows[i].file_hash = Str(hash)}
    IN  IF ok /\ hits # {}
        THEN {Answer("found", st.rows[i].id, SQLServerRead(st.rows[i])) : i \in hits}
        ELSE {Answer("none", 0, NoDoc)}

\* MongoDBHandler.insert_process_log: the entry is stored as it is
MongoDB_insert_process_log(st, entry, ok) ==
    LET doc == [entry EXCEPT !["timestamp"] = UtcNow, !["_id"] = <<"oid", "">>]
    IN  IF ok /\ bson_encodable(entry)
        THEN Outcome([st EXCEPT !.logs = Append(@, doc)],
                     Answer("ok", Len(st.logs) + 1, NoDoc))
        ELSE Outcome(st, Answer("raised", 0, NoDoc))

\* SQLServerHandler.insert_process_log: four columns of the entry are stored
SQLServer_insert_process_log(st, entry, end) ==
    LET row == Dict({ <<"file_id", entry["file_id"]>>,
                      <<"file_name", entry["file_name"]>>,
                      <<"status", entry["status"]>>,
                      <<"message", entry["message"]>>,
                      <<"timestamp", UtcNow>> })
    IN  IF end # "error"
        THEN Outcome([st EXCEPT !.logs = Append(@, row)],
                     IF end = "ok" THEN Answer("ok", Len(st.logs) + 1, NoDoc)
                     ELSE Answer("raised", 0, NoDoc))
        ELSE Outcome(st, Answer("raised", 0, NoDoc))

\* ------------------------------------------- a caller of both handlers

\* CSVExtractor.extract_metadata: 'nullable' is df[col].isnull().any(), a
\* numpy.bool_
CsvMetadata ==
    Dict({ <<"file_name", Str("a.csv")>>, <<"file_type", Str("csv")>>,
           <<"file_hash", Str("h1")>>, <<"status", Str("validated")>>,
           <<"nullable", <<"np_bool", "false">>>> })

\* ImageExtractor.extract_metadata: Python values only
ImageMetadata ==
    Dict({ <<"file_name", Str("c.jpg")>>, <<"file_type", Str("image")>>,
           <<"file_hash", Str("h2")>>, <<"status", Str("validated")>> })

\* the metadata of a second image file with the same content
ImageCopyMetadata == [ImageMetadata EXCEPT !["file_name"] = Str("e.jpg")]

\* a metadata dictionary without the key file_hash, as a record written before
\* hashes were computed has it; metadata.get('file_hash') is None
LegacyMetadata ==
    Dict({ <<"file_name", Str("old.jpg")>>, <<"file_type", Str("image")>>,
           <<"status", Str("validated")>> })

Metadatas == {CsvMetadata, ImageMetadata, ImageCopyMetadata, LegacyMetadata}

\* dictionaries handed to update_metadata: one key, and a whole document
Updates ==
    { Dict({ <<"status", Str("failed")>> }),
      [ImageMetadata EXCEPT !["status"] = Str("failed")] }

\* the entries of processor._log_process and deduplication.log_duplicate
LogEntries ==
    { Dict({ <<"file_name", Str("c.jpg")>>, <<"file_type", Str("image")>>,
             <<"status", Str("success")>>, <<"message", Str("File success")>> }),
      Dict({ <<"file_name", Str("e.jpg")>>, <<"status", Str("duplicate_rejected")>>,
             <<"message", Str("File is a duplicate of c.jpg")>> }) }

Hashes == {"h1", "h2"}

\* the id the backend returned to the k-th insert_metadata call (0: none); the
\* caller of update_metadata and get_metadata passes k = 0 for an id it made up
IdAt(b, k) == IF k = 0 THEN 0 ELSE db[b].ids[k]

\* how a statement that writes can end on sqlserver when the server accepts it
SqlEnds(ok) ==
    IF ~ok THEN {"error"}
    ELSE IF faults < MaxFaults THEN {"ok", "after_commit"} ELSE {"ok"}

Resp(op, m, s) ==
    [b \in Backends |-> [op |-> op, answer |-> IF b = "mongodb" THEN m ELSE s]]

FrameOfDb ==
    UNCHANGED << early, clockVars, bootVars, storageVars, incoming, treeVars, counterVars,
                 is_running, job, cycles, last, pc, files, idx, submitted,
                 outcomes, result, metadata, reg, att, arrivals >>

\* the caller hands the same metadata to insert_metadata of both backends
DbInsert(md) ==
    /\ calls < MaxCalls
    /\ \E ok \in Chance : \E end \in SqlEnds(ok) :
         LET m == MongoDB_insert_metadata(db["mongodb"], md, ok)
             s == SQLServer_insert_metadata(db["sqlserver"], md, end)
         IN  /\ db' = [b \in Backends |-> IF b = "mongodb" THEN m.store ELSE s.store]
             /\ resp' = Resp("insert_metadata", m.answer, s.answer)
             /\ Charge(ok /\ end = "ok")
    /\ calls' = calls + 1
    /\ FrameOfDb

\* update_metadata on the record of the k-th insert, on both backends
DbUpdate(k, md) ==
    /\ calls < MaxCalls
    /\ k <= Len(db["mongodb"].ids)
    /\ \E ok \in Chance :
         LET m == MongoDB_update_metadata(db["mongodb"], IdAt("mongodb", k), md, ok)
             s == SQLServer_update_metadata(db["sqlserver"], IdAt("sqlserver", k), md, ok)
         IN  /\ db' = [b \in Backends |-> IF b = "mongodb" THEN m.store ELSE s.store]
             /\ resp' = Resp("update_metadata", m.answer, s.answer)
             /\ Charge(ok)
    /\ calls' = calls + 1
    /\ FrameOfDb

\* get_metadata of the record of the k-th insert, on both backends
DbGet(k) ==
    /\ calls < MaxCalls
    /\ k <= Len(db["mongodb"].ids)
    /\ \E ok \in Chance :
         /\ resp' = Resp("get_metadata",
                         MongoDB_get_metadata(db["mongodb"], IdAt("mongodb", k), ok),
                         SQLServer_get_metadata(db["sqlserver"], IdAt("sqlserver", k), ok))
         /\ Charge(ok)
    /\ calls' = calls + 1
    /\ UNCHANGED db
    /\ FrameOfDb

\* find_by_hash on both backends
DbFind(hash) ==
    /\ calls < MaxCalls
    /\ \E ok \in Chance :
         /\ \E m \in MongoDB_find_by_hash(db["mongodb"], hash, ok) :
              \E s \in SQLServer_find_by_hash(db["sqlserver"], hash, ok) :
                resp' = Resp("find_by_hash", m, s)
         /\ Charge(ok)
    /\ calls' = calls + 1
    /\ UNCHANGED db
    /\ FrameOfDb

\* insert_process_log of the same entry on both backends
DbLog(entry) ==
    /\ calls < MaxCalls
    /\ \E ok \in Chance : \E end \in SqlEnds(ok) :
         LET m == MongoDB_insert_process_log(db["mongodb"], entry, ok)
             s == SQLServer_insert_process_log(db["sqlserver"], entry, end)
         IN  /\ db' = [b \in Backends |-> IF b = "mongodb" THEN m.store ELSE s.store]
             /\ resp' = Resp("insert_process_log", m.answer, s.answer)
             /\ Charge(ok /\ end = "ok")
    /\ calls' = calls + 1
    /\ FrameOfDb

\* --------------------------------------------------------- specification

Step(t) ==
    \/ IngestList(t)
    \/ Validate(t)
    \/ Extract(t)
    \/ Dedup(t)
    \/ Unexpected(t)
    \/ Insert(t)
    \/ Copy(t)
    \/ MoveRaw(t)
    \/ MoveToFailed(t)
    \/ BumpRead(t)
    \/ BumpWrite(t)
    \/ LoopNext(t)
    \/ CycleStats(t)

Next ==
    \/ \E d \in Drops : Arrive(d[1], d[2])
    \/ create_handler
    \/ health_check
    \/ start
    \/ TimerFire
    \/ Signal
    \/ stop
    \/ close
    \/ \E t \in Threads : Step(t)

Spec == Init /\ [][Next]_vars

\* the incoming directories that hold up to MaxPresent dropped files
Dirs ==
    { d \in [Names -> Contents \cup {None}] :
        /\ \A n \in Names : d[n] # None => <<n, d[n]>> \in Drops
        /\ Cardinality({n \in Names : d[n] # None}) <= MaxPresent }

\* the scheduler in the hands of a caller: a FileIngestionScheduler has been
\* constructed over an open storage handle and a filled incoming directory,
\* and the caller calls start() and stop() in any order
ApiInit ==
    /\ backend \in Backends
    /\ handler = "open"
    /\ uniqueIndex = TRUE
    /\ made = 1
    /\ self_db = 1
    /\ pc = [t \in Threads |-> IF t = "main" THEN "sleep" ELSE "idle"]
    /\ incoming \in Dirs
    /\ arrivals = MaxArrivals
    /\ db = [b \in Backends |-> EmptyStore]
    /\ resp = [b \in Backends |-> NoResp]
    /\ InitRest

ApiNext ==
    \/ CallStart
    \/ CallStop
    \/ start
    \/ stop
    \/ TimerFire
    \/ \E t \in Threads : Step(t)

ApiSpec == ApiInit /\ [][ApiNext]_vars

\* a caller holding a connected handler of each backend, both having run
\* create_tables and create_indexes with the same outcome
DbInit ==
    /\ backend \in Backends
    /\ handler = "open"
    /\ uniqueIndex \in BOOLEAN
    /\ made = 1
    /\ self_db = 0
    /\ pc = [t \in Threads |-> IF t = "main" THEN "sleep" ELSE "idle"]
    /\ incoming = EmptyDir
    /\ arrivals = MaxArrivals
    /\ db = [b \in Backends |-> EmptyStore]
    /\ resp = [b \in Backends |-> NoResp]
    /\ InitRest

DbNext ==
    \/ \E md \in Metadatas : DbInsert(md)
    \/ \E k \in 0..MaxCalls : \E md \in Updates : DbUpdate(k, md)
    \/ \E k \in 0..MaxCalls : DbGet(k)
    \/ \E hash \in Hashes : DbFind(hash)
    \/ \E entry \in LogEntries : DbLog(entry)

DbSpec == DbInit /\ [][DbNext]_vars

\* the wall clock moves to another reading: time passes, or the clock is set
Tick(time) ==
    /\ time # now
    /\ now' = time
    /\ UNCHANGED << dbVars, early, computed, bootVars, storageVars, incoming,
                    treeVars, counterVars, schedVars, pc, files, idx, submitted,
                    outcomes, result, metadata, reg, att, arrivals, faults >>

\* a caller has the relocation directory of a file type computed under a root
ComputeDir(base_dir, file_type) ==
    /\ Cardinality(computed) < MaxComputed
    /\ computed' = computed \cup
         { [ base_dir |-> base_dir, file_type |-> file_type, time |-> now,
             dir |-> target_dir(get_batch_hour_dir(base_dir, now), file_type) ] }
    /\ UNCHANGED << dbVars, early, now, bootVars, storageVars, incoming,
                    treeVars, counterVars, schedVars, pc, files, idx, submitted,
                    outcomes, result, metadata, reg, att, arrivals, faults >>

ClockNext ==
    \/ \E time \in Times : Tick(time)
    \/ \E base_dir \in HourRoots : \E file_type \in {"csv", "unknown"} :
          ComputeDir(base_dir, file_type)

ClockSpec == Init /\ [][ClockNext]_vars

\* ------------------------------------------------------------- properties

\* thread t is inside _ingest_files
InCycle(t) ==
    pc[t] \in { "ingest", "validate", "extract", "dedup", "insert", "copy",
                "moveraw", "tofailed", "bump", "bumpw", "ret", "stats" }

\* thread t is inside a process_file call that has not returned yet
InCall(t) ==
    pc[t] \in { "validate", "extract", "dedup", "insert", "copy", "moveraw",
                "tofailed", "bump", "bumpw" }

\* process_file of thread t has just returned its result to the loop
Returned(t) == pc[t] = "ret"

\* C1: storage never holds two metadata records with status validated and the
\* same content hash.
C1_UniqueValidatedHash ==
    \A r1, r2 \in records :
        (r1.status = "validated" /\ r2.status = "validated"
            /\ r1.file_hash = r2.file_hash) => r1 = r2

\* C2: every call of process_file returns exactly one outcome, whose status is
\* one of the seven terminal statuses and never the initial 'unknown': the
\* status in hand at the return is a terminal one, and the outcomes the loop
\* has received in a cycle are one per finished call, each a terminal status.
C2_ReturnsOneKnownOutcome ==
    \A t \in Threads :
        /\ Returned(t) => result[t] \in Outcomes
        /\ \A i \in 1..Len(outcomes[t]) : outcomes[t][i] \in Outcomes
        /\ (InCall(t) \/ Returned(t)) => Len(outcomes[t]) = idx[t] - 1
        /\ pc[t] = "stats" => Len(outcomes[t]) = Len(files[t])

\* C2 witness: a cycle over two files has ended with two different outcomes.
C2_Witness ==
    \E t \in Threads :
        /\ pc[t] = "stats"
        /\ Len(outcomes[t]) = 2
        /\ outcomes[t][1] # outcomes[t][2]

\* C3: after process_file returns the original file is in exactly one of the
\* raw tree, the failed tree or (a copy apart, in the validated tree) its
\* unchanged incoming location, and it is still in incoming only when the
\* outcome is duplicate.
C3_OnePlaceIncomingOnlyIfDuplicate ==
    \A t \in Threads :
        Returned(t) =>
            /\ Cardinality(att[t].relocated \cap {"raw", "failed"}) <= 1
            /\ incoming[Cur(t)] # None => result[t] = "duplicate"

\* C4: no two ingestion cycles ever run at the same time.
C4_NoOverlappingCycles == ~(InCycle("main") /\ InCycle("timer"))

\* C5: when the duplicate lookup fails, the call ends in a processing failure
\* and insert_metadata is not attempted for the file.
C5_LookupFailureStopsAttempt ==
    \A t \in Threads :
        att[t].lookup = "failed" =>
            /\ att[t].insertEnd = "none"
            /\ Returned(t) => result[t] \notin {"success", "duplicate"}

\* C6: every processing attempt appends exactly one process log entry,
\* whatever its outcome.
C6_OneLogEntryPerAttempt ==
    \A t \in Threads : Returned(t) => Len(att[t].logged) = 1

\* C7: within one cycle every file of the listing taken at the start of the
\* cycle is handed to process_file exactly once, in order, whatever the
\* outcomes of the files before it: the files submitted so far are the first
\* idx files of the listing, and all of them once the loop has ended.
C7_EveryListedFileSubmittedOnce ==
    \A t \in Threads :
        /\ (InCall(t) \/ Returned(t)) => submitted[t] = SubSeq(files[t], 1, idx[t])
        /\ pc[t] = "stats" => submitted[t] = files[t]
        /\ \A i, j \in 1..Len(submitted[t]) : i # j => submitted[t][i] # submitted[t][j]

\* C7 witness: a cycle over two files has ended and its first file failed.
C7_Witness ==
    \E t \in Threads :
        /\ pc[t] = "stats"
        /\ Len(files[t]) = 2
        /\ submitted[t] = files[t]
        /\ outcomes[t][1] \notin {"success", "duplicate"}

\* the one increment "failed_count += 1" that took effect
FailedOnce == << [counter |-> "failed", exact |-> TRUE] >>

C10_ValidationFailureHandled ==
    \A t \in Threads :
        (Returned(t) /\ result[t] = "validation_failed") =>
            /\ att[t].relocated = {"failed"}
            /\ att[t].left
            /\ att[t].logged = << "failed" >>
            /\ att[t].bumped = FailedOnce
            /\ att[t].insertEnd = "none"
            /\ att[t].recId = 0

\* C11: process_file returns success only if the copy into the validated tree
\* and the move of the original from incoming into the raw tree both succeeded,
\* so after a success outcome the call has taken the file out of incoming; a
\* call that reached the relocation and did not complete both steps ends as
\* file_movement_failed.
C11_SuccessOnlyIfRelocated ==
    \A t \in Threads :
        /\ (Returned(t) /\ result[t] = "success") =>
               /\ att[t].relocated = {"validated", "raw"}
               /\ att[t].left
        /\ (Returned(t) /\ att[t].insertEnd = "ok"
                        /\ att[t].relocated \cap {"validated", "raw"} # {"validated", "raw"}) =>
               result[t] = "file_movement_failed"

\* nothing of the scheduler or of a cycle has happened
NothingScheduled ==
    /\ ~job
    /\ ~is_running
    /\ last = NoCall
    /\ cycles = 0
    /\ \A t \in Threads : ~InCycle(t)
    /\ records = {}
    /\ logs = EmptyBag
    /\ processed_count + failed_count + duplicate_count = 0

\* C12: if the storage backend cannot be connected or the initial health check
\* fails at startup, the process exits without ever starting the scheduler: main
\* goes on from create_handler only with an open handle, goes on to start() only
\* after a health check that did not fail, the job is registered only by
\* start() over an open handle, and in the exited process no job is registered
\* and no cycle has run.
C12_ExitsBeforeScheduling ==
    /\ [](pc["main"] = "exited" => NothingScheduled)
    /\ [][ /\ (pc["main"] = "boot" /\ pc'["main"] = "health") => handler' = "open"
           /\ (pc["main"] = "boot" /\ handler' = None) => pc'["main"] \in {"boot", "exited", "close"}
           /\ (pc["main"] = "health" /\ faults' # faults) => pc'["main"] = "exited"
           /\ (job' /\ ~job) => (pc["main"] = "start" /\ handler = "open") ]_vars

\* C12 witness: the process has exited after a failed connection or a failed
\* health check.
C12_Witness == pc["main"] = "exited" /\ faults > 0 /\ handler = None

\* the main thread is past the DatabaseFactory.close() of the signal handler
AfterClose == pc["main"] \in {"finstop", "finclose", "done"}

\* C13: on a shutdown signal the scheduler is stopped before the storage handle
\* is closed (the closing step finds no job registered, is_running cleared and
\* no cycle in progress), and once the handle has been closed no cycle is in
\* progress, none starts, and the stored records and log entries never change.
C13_StopThenCloseThenQuiet ==
    /\ [](AfterClose =>
             /\ handler = None
             /\ ~job
             /\ ~is_running
             /\ \A t \in Threads : ~InCycle(t))
    /\ [][ /\ (pc["main"] = "close" /\ pc'["main"] # "close") =>
                  (~job /\ ~is_running /\ \A t \in Threads : ~InCycle(t))
           /\ AfterClose => UNCHANGED << records, logs, cycles >> ]_vars

\* C13 witness: the process has shut down after the signal handler stopped a
\* running scheduler whose interval job had fired and closed the handle, and the
\* stop() of the finally clause found the scheduler stopped.
C13_Witness ==
    /\ pc["main"] = "done"
    /\ handler = None
    /\ cycles > 0
    /\ records # {}
    /\ last = [op |-> "stop", running |-> FALSE]

\* C14: the statistics reported at the end of a cycle are scoped to that cycle:
\* when a cycle that ran with no other cycle in progress reports them, processed
\* + failed + duplicates equals the number of files the cycle listed.
C14_StatisticsScopedToCycle ==
    \A t \in Threads :
        (pc[t] = "stats" /\ \A u \in Threads \ {t} : ~InCycle(u)) =>
            processed_count + failed_count + duplicate_count = Len(files[t])

\* everything but the position of the main thread and the note of the last call
FrameOfCall ==
    << dbVars, early, clockVars, bootVars, storageVars, incoming, treeVars, counterVars, is_running, job,
       cycles, calls, files, idx, submitted, outcomes, result, metadata, reg, att,
       arrivals, faults >>

\* C15: stop() cancels the timer and is idempotent: from the return of stop()
\* until the next start() no job is registered, the scheduler is not running
\* and no cycle is in progress or starts; and a stop() on a scheduler that is
\* not running (stopped before, or never started) returns to the caller having
\* changed no state.
C15_StopCancelsAndIsIdempotent ==
    /\ [](last.op = "stop" =>
             /\ ~job
             /\ ~is_running
             /\ \A t \in Threads : ~InCycle(t))
    /\ [][ (pc["main"] = "apistop" /\ ~job /\ pc'["main"] # "apistop") =>
               (pc'["main"] = "sleep" /\ UNCHANGED FrameOfCall) ]_vars

\* C15 witness: after start() ran a cycle, stop() was called, and a further
\* stop() has returned having found the scheduler not running.
C15_Witness ==
    /\ pc["main"] = "sleep"
    /\ calls = 3
    /\ last = [op |-> "stop", running |-> FALSE]
    /\ processed_count + failed_count + duplicate_count > 0

\* C16: start() on a scheduler that is already running is a no-op: it returns
\* to the caller having registered no job, run no cycle and changed no state,
\* and the scheduler is still running.
C16_StartOnRunningIsNoOp ==
    /\ []((last = [op |-> "start", running |-> TRUE] /\ pc["main"] = "sleep") =>
             (is_running /\ job /\ files["main"] = <<>>))
    /\ [][ (pc["main"] = "start" /\ is_running /\ pc'["main"] # "start") =>
               (pc'["main"] = "sleep" /\ is_running' /\ UNCHANGED FrameOfCall) ]_vars

\* C16 witness: a start() called on a running scheduler has returned.
C16_Witness ==
    /\ pc["main"] = "sleep"
    /\ calls >= 2
    /\ last = [op |-> "start", running |-> TRUE]
    /\ is_running

\* the names of the files present in a directory
Present(dir) == {n \in Names : dir[n] # None}

\* C17: start() on a stopped scheduler registers the interval job and sets the
\* state to running, then lists incoming and runs the cycle on the calling
\* thread, and control returns to the caller only at the end of that cycle,
\* after every file the listing found in incoming has been handed to
\* process_file and has an outcome, with the job registered and the state
\* running.
C17_StartRunsOneFullCycle ==
    [][ /\ (pc["main"] = "start" /\ ~is_running /\ last' # last) =>
               (job' /\ is_running' /\ pc'["main"] = "ingest")
        /\ (pc["main"] = "ingest" /\ pc'["main"] = "validate") =>
               { files'["main"][i] : i \in 1..Len(files'["main"]) } = Present(incoming)
        /\ (pc["main"] # "sleep" /\ pc'["main"] = "sleep" /\ ~(pc["main"] = "start" /\ is_running)) =>
               /\ job' /\ is_running'
               /\ \/ pc["main"] = "ingest" /\ Present(incoming) = {}
                  \/ /\ pc["main"] = "stats"
                     /\ submitted["main"] = files["main"]
                     /\ Len(outcomes["main"]) = Len(files["main"])
                     /\ \A i \in 1..Len(outcomes["main"]) : outcomes["main"][i] \in Outcomes
      ]_vars

\* C17 amended: as C17, except that the initial cycle ends at once, with no
\* file handed to process_file, not only when incoming is empty but also when
\* the listing of incoming fails (a cycle-level error); in both cases control
\* returns with the job registered and the state running.
C17_StartRunsOneCycle ==
    [][ /\ (pc["main"] = "start" /\ ~is_running /\ last' # last) =>
               (job' /\ is_running' /\ pc'["main"] = "ingest")
        /\ (pc["main"] = "ingest" /\ pc'["main"] = "validate") =>
               { files'["main"][i] : i \in 1..Len(files'["main"]) } = Present(incoming)
        /\ (pc["main"] # "sleep" /\ pc'["main"] = "sleep" /\ ~(pc["main"] = "start" /\ is_running)) =>
               /\ job' /\ is_running'
               /\ \/ pc["main"] = "ingest" /\ (Present(incoming) = {} \/ early'["main"])
                  \/ /\ pc["main"] = "stats"
                     /\ submitted["main"] = files["main"]
                     /\ Len(outcomes["main"]) = Len(files["main"])
                     /\ \A i \in 1..Len(outcomes["main"]) : outcomes["main"][i] \in Outcomes
      ]_vars

\* C17 witness: start() has returned to main after its initial cycle processed
\* two files, before the interval job ever fired.
C17_Witness ==
    /\ pc["main"] = "sleep"
    /\ last = [op |-> "start", running |-> FALSE]
    /\ job /\ is_running
    /\ cycles = 0
    /\ processed_count + failed_count + duplicate_count = 2

ReadById(b, id) ==
    IF b = "mongodb" THEN MongoDB_get_metadata(db[b], id, TRUE)
    ELSE SQLServer_get_metadata(db[b], id, TRUE)

ReadByHash(b, hash) ==
    IF b = "mongodb" THEN MongoDB_find_by_hash(db[b], hash, TRUE)
    ELSE SQLServer_find_by_hash(db[b], hash, TRUE)

\* the rows insert_metadata wrote that no update_metadata has touched since
Written(b) == {i \in 1..Len(db[b].rows) : ~db[b].rows[i].updated}

\* C19: on every backend, a record written with insert_metadata and read back
\* with get_metadata by the returned id, or with find_by_hash by its content
\* hash, has the fields and values that were written, ids and timestamps aside.
C19_RoundTrip ==
    \A b \in Backends : \A i \in Written(b) :
        LET row == db[b].rows[i]
        IN  /\ \E k \in 1..Len(db[b].ids) : db[b].ids[k] = row.id
                => Logical(ReadById(b, row.id).doc) = Logical(row.written)
            /\ \A a \in ReadByHash(b, row.written["file_hash"][2]) :
                 /\ a.status = "found"
                 /\ Logical(a.doc) = Logical(row.written)

\* reading by the returned id gives back what was written
RoundTripById ==
    \A b \in Backends : \A i \in Written(b) :
        LET row == db[b].rows[i]
        IN  \E k \in 1..Len(db[b].ids) : db[b].ids[k] = row.id
                => Logical(ReadById(b, row.id).doc) = Logical(row.written)

\* reading by hash gives back what was written where the unique index exists
RoundTripByHashIndexed ==
    uniqueIndex =>
        \A b \in Backends : \A i \in Written(b) :
            \A a \in ReadByHash(b, db[b].rows[i].written["file_hash"][2]) :
                /\ a.status = "found"
                /\ Logical(a.doc) = Logical(db[b].rows[i].written)

\* the records and the log entries a backend holds, as its reads return them,
\* without ids and timestamps
LogicalRecords(b) ==
    [i \in 1..Len(db[b].rows) |->
        Logical(IF b = "mongodb" THEN MongoRead(db[b].rows[i])
                ELSE SQLServerRead(db[b].rows[i]))]

LogicalLogs(b) == [i \in 1..Len(db[b].logs) |-> Logical(db[b].logs[i])]

\* C20: after any sequence of insert_metadata, update_metadata, get_metadata,
\* find_by_hash and insert_process_log calls with the same arguments, on a
\* storage that fails no statement, the two backends have given the same answer
\* to the last call and hold the same logical records and log entries, ids and
\* timestamps aside.
C20_BackendsAgree ==
    faults = 0 =>
        /\ resp["mongodb"].answer.status = resp["sqlserver"].answer.status
        /\ Logical(resp["mongodb"].answer.doc) = Logical(resp["sqlserver"].answer.doc)
        /\ LogicalRecords("mongodb") = LogicalRecords("sqlserver")
        /\ LogicalLogs("mongodb") = LogicalLogs("sqlserver")

\* backend b holds a validated record with this file_hash value
HoldsValidated(b, hash) ==
    \E i \in 1..Len(db[b].rows) :
        IF b = "mongodb"
        THEN /\ db[b].rows[i].doc["file_hash"] = hash
             /\ db[b].rows[i].doc["status"] = Str("validated")
        ELSE /\ db[b].rows[i].file_hash = hash
             /\ db[b].rows[i].status = Str("validated")

\* C21: an insert_metadata call with the file_hash of a validated record that
\* storage holds raises and leaves the table as it was, on either backend,
\* whether or not create_indexes succeeded when the handler was created.
C21_DuplicateInsertRejected ==
    [][\A md \in Metadatas : \A b \in Backends :
          (DbInsert(md) /\ HoldsValidated(b, md["file_hash"]))
              => /\ resp'[b].answer.status = "raised"
                 /\ db'[b].rows = db[b].rows]_vars

\* the same where create_indexes had succeeded
DuplicateInsertRejectedIndexed ==
    [][\A md \in Metadatas : \A b \in Backends :
          (uniqueIndex /\ DbInsert(md) /\ HoldsValidated(b, md["file_hash"]))
              => /\ resp'[b].answer.status = "raised"
                 /\ db'[b].rows = db[b].rows]_vars

\* thread t ends its cycle on a cycle-level error with this step
EndsEarly(t) == pc[t] = "ingest" /\ pc'[t] # "ingest" /\ early'[t]

\* C22: a cycle that ends early on a cycle-level error (the incoming directory
\* absent or unreadable) leaves the scheduler running with its interval job
\* registered and touches neither storage nor the trees nor the counters; the
\* thread is back where the next firing finds it, so the next firing starts a
\* new cycle.
C22_CycleErrorKeepsSchedulerRunning ==
    [][\A t \in Threads :
          EndsEarly(t) =>
              /\ is_running' /\ job'
              /\ pc'[t] = AfterCycle(t)
              /\ UNCHANGED << storageVars, incoming, treeVars, counterVars >>]_vars

\* the initial cycle ended early on the main thread, and the interval job has
\* since fired and is processing the file the failed cycle did not list
C22_Witness ==
    /\ early["main"]
    /\ is_running /\ job
    /\ cycles = 1
    /\ pc["timer"] = "validate"

\* C23: every destination a process_file call writes the file to, in the
\* validated, the raw and the failed tree, is the tree's root, then the hour
\* bucket YYYYMMDD_HH00 of the clock, then the subfolder of the file's type
\* (structured, images, videos, else unknown), then the file's name.
C23_DestinationIsRootHourTypeName ==
    \A t \in Threads : \A p \in att[t].dest :
        /\ p.root \in {"validated", "raw", "failed"}
        /\ p.bucket = batch_hour(now)
        /\ p.sub = type_map(detect_file_type(p.name))
        /\ p.name = Cur(t)

\* the same for the validated and the failed tree alone
DestinationIsRootHourTypeNameButRaw ==
    \A t \in Threads : \A p \in att[t].dest :
        p.root # "raw" =>
            /\ p.root \in {"validated", "failed"}
            /\ p.bucket = batch_hour(now)
            /\ p.sub = type_map(detect_file_type(p.name))
            /\ p.name = Cur(t)

\* two readings of the wall clock in the same clock hour
SameHour(a, b) ==
    /\ a.year = b.year /\ a.month = b.month /\ a.day = b.day
    /\ a.hour = b.hour

\* C24: two computations of the relocation directory for the same base
\* directory and the same file type give the same directory when they are made
\* in the same clock hour, and different directories when they are made in
\* different clock hours.
C24_SameHourSameDirectory ==
    \A c, d \in computed :
        (c.base_dir = d.base_dir /\ c.file_type = d.file_type)
            => (SameHour(c.time, d.time) <=> c.dir = d.dir)

\* the directory was computed at the first and at the last minute of one hour
C24_Witness ==
    \E c, d \in computed :
        /\ c.base_dir = d.base_dir /\ c.file_type = d.file_type
        /\ c.time.minute = 0 /\ d.time.minute = 59
        /\ SameHour(c.time, d.time)
        /\ c.dir = d.dir

\* the record the call of thread t inserted is in storage with status validated
RecordKept(t) ==
    /\ att[t].recId # 0
    /\ \E r \in records :
         /\ r.id = att[t].recId
         /\ r.file_name = Cur(t)
         /\ r.status = "validated"

\* storage holds the record of a file with this content that lies in the
\* failed tree
LeftByFailedRelocation(h) ==
    \E r \in records : r.file_hash = h /\ failed[r.file_name] = h

\* C25: when a call ends with file_movement_failed, the record it inserted is
\* still in storage with status validated and the file is in the failed tree;
\* and a later call on a file with the content of such a record, whose lookup
\* is answered, ends as duplicate.
C25_RecordKeptFileInFailedTree ==
    \A t \in Threads :
        /\ (Returned(t) /\ result[t] = "file_movement_failed") =>
               /\ RecordKept(t)
               /\ failed[Cur(t)] # None
        /\ (Returned(t) /\ att[t].known /\ att[t].lookup \in {"found", "notfound"}
                /\ LeftByFailedRelocation(metadata[t].file_hash)) =>
               result[t] = "duplicate"

\* what holds of it: the record is kept, and the file is in the failed tree
\* when the call moved it
RecordKeptAfterFailedRelocation ==
    \A t \in Threads :
        (Returned(t) /\ result[t] = "file_movement_failed") =>
            /\ RecordKept(t)
            /\ att[t].relocated \subseteq {"failed"}
            /\ att[t].left <=> att[t].relocated = {"failed"}

\* C26: a file that was rejected as duplicate in an earlier cycle is still in
\* incoming, and when a later cycle's call on it reaches the duplicate check it
\* ends as duplicate again: it inserts nothing, leaves the file where it is,
\* increments the duplicate counter and appends at most one more
\* duplicate_rejected entry.
C26_DuplicateAgainEveryCycle ==
    \A t \in Threads :
        (Returned(t) /\ att[t].seen > 0 /\ att[t].lookup # "none") =>
            /\ result[t] = "duplicate"
            /\ att[t].insertEnd = "none"
            /\ att[t].relocated = {}
            /\ ~att[t].left
            /\ Len(att[t].bumped) = 1
            /\ att[t].bumped[1].counter = "duplicates"
            /\ att[t].logged \in { <<>>, << "duplicate_rejected" >> }

\* the same for the calls whose lookup is answered
DuplicateAgainWhenFound ==
    \A t \in Threads :
        (Returned(t) /\ att[t].seen > 0 /\ att[t].lookup \in {"found", "notfound"}) =>
            /\ result[t] = "duplicate"
            /\ att[t].insertEnd = "none"
            /\ att[t].relocated = {}
            /\ ~att[t].left
            /\ Len(att[t].bumped) = 1
            /\ att[t].bumped[1].counter = "duplicates"
            /\ att[t].logged \in { <<>>, << "duplicate_rejected" >> }

\* a file rejected as duplicate in the initial cycle has been rejected again
\* by the cycle of the interval job and is still in incoming
RejectedAgain ==
    /\ Returned("timer")
    /\ att["timer"].seen = 1
    /\ result["timer"] = "duplicate"
    /\ att["timer"].logged = << "duplicate_rejected" >>
    /\ incoming[Cur("timer")] # None
    /\ duplicate_count = 2

\* C27: a process_file call that has begun is never cancelled by shutdown: on
\* either thread a call in progress takes its next step or returns its outcome,
\* and the storage handle stays open for as long as a call is in progress.
C27_CallNeverCancelledByShutdown ==
    /\ [](\A t \in Threads : InCall(t) => handler # None)
    /\ [][\A t \in Threads : InCall(t) => (InCall(t)' \/ Returned(t)')]_vars

\* the part of C27 that the code keeps: a call of the interval job's thread is
\* never cancelled, the handle being closed only after the call has returned
CallOfTimerNeverCancelled ==
    /\ [](InCall("timer") => handler # None)
    /\ [][InCall("timer") => (InCall("timer")' \/ Returned("timer")')]_vars

\* C28: a failed metadata extraction, an extractor that raises included, ends
\* the call as metadata_extraction_failed with the failed-path handling of a
\* validation failure (the file relocated to the failed tree, the failed counter
\* incremented by one, no record persisted), and a failed validation, a
\* validator that raises included, ends it as validation_failed.
C28_ExtractionFailureHandled ==
    /\ [](\A t \in Threads :
             (Returned(t) /\ result[t] = "metadata_extraction_failed") =>
                 /\ att[t].relocated = {"failed"}
                 /\ att[t].left
                 /\ att[t].bumped = FailedOnce
                 /\ att[t].insertEnd = "none"
                 /\ att[t].recId = 0)
    /\ [][\A t \in Threads :
             /\ (pc[t] = "extract" /\ pc'[t] = "tofailed") =>
                    result'[t] = "metadata_extraction_failed"
             /\ (pc[t] = "validate" /\ pc'[t] = "tofailed") =>
                    result'[t] = "validation_failed"]_vars

\* the part of C28 that the code keeps: the outcomes are the ones stated, the
\* call goes on to the failed path, one increment of the failed counter is
\* written, nothing is inserted and no tree but the failed one is written to
ExtractionFailureOutcome ==
    /\ [](\A t \in Threads :
             (Returned(t) /\ result[t] = "metadata_extraction_failed") =>
                 /\ att[t].relocated \subseteq {"failed"}
                 /\ Len(att[t].bumped) = 1
                 /\ att[t].bumped[1].counter = "failed"
                 /\ att[t].insertEnd = "none"
                 /\ att[t].recId = 0)
    /\ [][\A t \in Threads :
             /\ (pc[t] = "extract" /\ InCall(t)' /\ pc'[t] \notin {"extract", "dedup"}) =>
                    (result'[t] = "metadata_extraction_failed" /\ pc'[t] = "tofailed")
             /\ (pc[t] = "validate" /\ InCall(t)' /\ pc'[t] \notin {"validate", "extract"}) =>
                    (result'[t] = "validation_failed" /\ pc'[t] = "tofailed")]_vars

\* an extractor raised and the call ended as C28 states
ExtractionFailedAndRelocated ==
    \E t \in Threads :
        /\ Returned(t)
        /\ result[t] = "metadata_extraction_failed"
        /\ att[t].relocated = {"failed"}
        /\ att[t].left
        /\ att[t].bumped = FailedOnce
        /\ failed[Cur(t)] # None

\* C29: an exception that escapes a step of process_file is caught at the end
\* of process_file and gives the outcome unexpected_error, with the file
\* relocated to the failed tree and the failed counter incremented by exactly
\* one, and the call returns its result to the scheduler's loop instead of
\* raising.
C29_UnexpectedErrorHandled ==
    /\ [](\A t \in Threads :
             (Returned(t) /\ result[t] = "unexpected_error") =>
                 /\ att[t].relocated = {"failed"}
                 /\ att[t].left
                 /\ att[t].bumped = FailedOnce)
    /\ [][\A t \in Threads :
             /\ Unexpected(t) => (result'[t] = "unexpected_error" /\ InCall(t)')
             /\ (result[t] = "unexpected_error" /\ InCall(t)) =>
                    (InCall(t)' \/ Returned(t)' \/ pc'[t] \in {"sigstop", "close"})]_vars

\* the part of C29 that the code keeps: the exception is caught, the outcome is
\* unexpected_error, the call takes the failed path, writes one increment of the
\* failed counter and returns; it is left only by the signal handler's exit
UnexpectedErrorCaught ==
    /\ [](\A t \in Threads :
             (Returned(t) /\ result[t] = "unexpected_error") =>
                 /\ att[t].relocated \subseteq {"failed"}
                 /\ Len(att[t].bumped) = 1
                 /\ att[t].bumped[1].counter = "failed")
    /\ [][\A t \in Threads :
             /\ Unexpected(t) => (result'[t] = "unexpected_error" /\ pc'[t] = "tofailed")
             /\ (result[t] = "unexpected_error" /\ InCall(t)) =>
                    (InCall(t)' \/ Returned(t)' \/ pc'[t] \in {"sigstop", "close"})]_vars

\* an exception escaped and the call ended as C29 states
UnexpectedErrorAndRelocated ==
    \E t \in Threads :
        /\ Returned(t)
        /\ result[t] = "unexpected_error"
        /\ att[t].relocated = {"failed"}
        /\ att[t].left
        /\ att[t].bumped = FailedOnce
        /\ failed[Cur(t)] # None

\* the duplicate_rejected log write of the call of thread t failed: the lookup
\* found the record and the call appended no entry
LogWriteFailed(t) == att[t].lookup = "found" /\ att[t].logged = <<>>

\* C30: a failure to write the duplicate_rejected log entry does not change the
\* outcome of the attempt: the call still returns duplicate, the duplicate
\* counter is incremented, the failed counter is not, and the file is not moved.
C30_LogFailureKeepsDuplicateOutcome ==
    \A t \in Threads :
        (Returned(t) /\ LogWriteFailed(t)) =>
            /\ result[t] = "duplicate"
            /\ att[t].bumped = << [counter |-> "duplicates", exact |-> TRUE] >>
            /\ att[t].relocated = {}
            /\ ~att[t].left

\* the part of C30 that the code keeps: the call returns duplicate, its one
\* counter update is an increment of the duplicate counter, and the call neither
\* moves the file nor writes to a tree
LogFailureKeepsDuplicateOutcomeOfCall ==
    \A t \in Threads :
        (Returned(t) /\ LogWriteFailed(t)) =>
            /\ result[t] = "duplicate"
            /\ Len(att[t].bumped) = 1
            /\ att[t].bumped[1].counter = "duplicates"
            /\ att[t].relocated = {}
            /\ ~att[t].left

\* a call whose duplicate_rejected log write failed has ended as C30 states
DuplicateWithoutLogEntry ==
    \E t \in Threads :
        /\ Returned(t)
        /\ LogWriteFailed(t)
        /\ result[t] = "duplicate"
        /\ att[t].bumped = << [counter |-> "duplicates", exact |-> TRUE] >>
        /\ duplicate_count = 1
        /\ failed_count = 0
        /\ incoming[Cur(t)] # None

\* C31: storage is append-only under the ingestion core: no step of the program
\* removes a metadata record or changes a field of one, and process log entries
\* are only appended, never modified or removed.
C31_StorageAppendOnly ==
    [][ /\ records \subseteq records'
        /\ \A e \in BagToSet(logs) : CopiesIn(e, logs') >= CopiesIn(e, logs) ]_vars

\* C31 witness: storage holds a record and a process log entry written by an
\* earlier call, and a later call on another file has returned after writing
\* its own log entry.
C31_Witness ==
    \E t \in Threads : \E r \in records :
        /\ Returned(t)
        /\ r.file_name # Cur(t)
        /\ att[t].logged # <<>>
        /\ CopiesIn(LogEntry(r.file_name, "success"), logs) > 0

\* backend b holds a record with this content hash
HoldsHash(b, hash) ==
    \E i \in 1..Len(db[b].rows) :
        IF b = "mongodb" THEN db[b].rows[i].doc["file_hash"] = hash
        ELSE db[b].rows[i].file_hash = hash

\* C32: the unique index on the content hash is sparse in every backend: where
\* the index exists and the server takes the statement, an insert_metadata call
\* with metadata that has no content hash stores the record, whatever records
\* without a hash storage already holds, and one with a hash that a stored
\* record has is rejected and leaves the table as it was.
C32_UniqueIndexSparse ==
    [][\A md \in Metadatas : \A b \in Backends :
          (uniqueIndex /\ DbInsert(md) /\ faults' = faults) =>
              IF md["file_hash"] = Absent
              THEN /\ resp'[b].answer.status = "ok"
                   /\ Len(db'[b].rows) = Len(db[b].rows) + 1
              ELSE HoldsHash(b, md["file_hash"]) =>
                       /\ resp'[b].answer.status = "raised"
                       /\ db'[b].rows = db[b].rows]_vars

\* the same for mongodb alone, whose index is created with sparse=True
UniqueIndexSparseOnMongo ==
    [][\A md \in Metadatas :
          (uniqueIndex /\ DbInsert(md) /\ faults' = faults) =>
              IF md["file_hash"] = Absent
              THEN /\ resp'["mongodb"].answer.status = "ok"
                   /\ Len(db'["mongodb"].rows) = Len(db["mongodb"].rows) + 1
              ELSE HoldsHash("mongodb", md["file_hash"]) =>
                       /\ resp'["mongodb"].answer.status = "raised"
                       /\ db'["mongodb"].rows = db["mongodb"].rows]_vars

\* mongodb holds two records without a content hash under the unique index
TwoRecordsWithoutHash ==
    /\ uniqueIndex
    /\ \E i, j \in 1..Len(db["mongodb"].rows) :
         /\ i # j
         /\ db["mongodb"].rows[i].doc["file_hash"] = Absent
         /\ db["mongodb"].rows[j].doc["file_hash"] = Absent

\* what get_metadata(id) of backend b returns on the store st
ReadOf(b, st, id) ==
    IF b = "mongodb" THEN MongoDB_get_metadata(st, id, TRUE).doc
    ELSE SQLServer_get_metadata(st, id, TRUE).doc

\* C33: update_metadata(id, fields) on an existing record returns true and
\* changes only the fields named in fields plus updated_at: read back, every
\* named field has the given value and every other field the value it had; on
\* an id that has no record it returns false and changes nothing.
C33_UpdateChangesOnlyNamedFields ==
    [][\A k \in 0..MaxCalls : \A md \in Updates : \A b \in Backends :
          (DbUpdate(k, md) /\ faults' = faults) =>
              IF IdAt(b, k) # 0
              THEN /\ resp'[b].answer.status = "true"
                   /\ \A key \in Keys \ {"updated_at"} :
                        ReadOf(b, db'[b], IdAt(b, k))[key] =
                            IF md[key] # Absent THEN md[key]
                            ELSE ReadOf(b, db[b], IdAt(b, k))[key]
              ELSE /\ resp'[b].answer.status = "false"
                   /\ db'[b] = db[b]]_vars

\* the same for mongodb alone, where the update is a $set, for the updates the
\* unique index lets through; and on both backends for an id without a record
UpdateMergesOnMongo ==
    [][\A k \in 0..MaxCalls : \A md \in Updates : \A b \in Backends :
          (DbUpdate(k, md) /\ faults' = faults) =>
              IF IdAt(b, k) = 0
              THEN /\ resp'[b].answer.status = "false"
                   /\ db'[b] = db[b]
              ELSE (b = "mongodb" /\ resp'[b].answer.status = "true") =>
                       \A key \in Keys \ {"updated_at"} :
                           ReadOf(b, db'[b], IdAt(b, k))[key] =
                               IF md[key] # Absent THEN md[key]
                               ELSE ReadOf(b, db[b], IdAt(b, k))[key]]_vars

\* update_metadata with the one key status has returned true on a record of
\* mongodb, which reads back with the new status and the name it had
UpdatedOneField ==
    /\ resp["mongodb"] = [op |-> "update_metadata", answer |-> Answer("true", 0, NoDoc)]
    /\ \E i \in 1..Len(db["mongodb"].rows) :
         /\ db["mongodb"].rows[i].updated
         /\ db["mongodb"].rows[i].doc["status"] = Str("failed")
         /\ db["mongodb"].rows[i].doc["file_name"] = Str("a.csv")

\* C34: processed + failed + duplicates equals the number of process_file
\* calls that have returned, and each call increments exactly one counter by
\* exactly one: processed if the outcome is success, duplicates if it is
\* duplicate, failed for every other outcome.
C34_CountersSumToReturnedCalls ==
    /\ [](processed_count + failed_count + duplicate_count = returns)
    /\ [](\A t \in Threads :
             Returned(t) =>
                 att[t].bumped = << [counter |-> CounterOf(result[t]), exact |-> TRUE] >>)
    /\ [][\A t \in Threads :
             (pc[t] = "bumpw" /\ pc'[t] = "ret") =>
                 /\ processed_count' = processed_count
                        + (IF result[t] = "success" THEN 1 ELSE 0)
                 /\ duplicate_count' = duplicate_count
                        + (IF result[t] = "duplicate" THEN 1 ELSE 0)
                 /\ failed_count' = failed_count
                        + (IF result[t] \notin {"success", "duplicate"} THEN 1 ELSE 0)]_vars

\* the part of C34 that the code keeps: a call that returns has written one
\* increment, to the counter of its outcome and to no other counter, and the
\* counters never count more than the calls that have returned
CallWritesCounterOfOutcome ==
    /\ [](processed_count + failed_count + duplicate_count <= returns)
    /\ [](\A t \in Threads :
             Returned(t) =>
                 /\ Len(att[t].bumped) = 1
                 /\ att[t].bumped[1].counter = CounterOf(result[t]))
    /\ [][\A t \in Threads :
             (pc[t] = "bumpw" /\ pc'[t] = "ret") =>
                 \A c \in {"processed", "duplicates", "failed"} :
                     c # CounterOf(result[t]) => CounterValue(c)' = CounterValue(c)]_vars

\* two calls have returned, one as success and one as duplicate, and each has
\* added one to the counter of its outcome
CountersMatchReturnedCalls ==
    /\ returns = 2
    /\ processed_count = 1
    /\ duplicate_count = 1
    /\ failed_count = 0
    /\ \E t \in Threads : Returned(t) /\ result[t] = "duplicate"

\* the contents of the files a tree holds
ContentsIn(tree) == {tree[n] : n \in Present(tree)}

\* C35: once a file has been ingested with outcome success, a file with its
\* content stays in the validated tree and in the raw tree across all later
\* ingestions, those of a file with the same name and another content
\* included: no step takes a content out of the validated or the raw tree.
C35_IngestedContentStays ==
    [][ /\ ContentsIn(validated) \subseteq ContentsIn(validated')
        /\ ContentsIn(raw) \subseteq ContentsIn(raw') ]_vars

\* the same for later ingestions of files with other names
IngestedContentStaysUnderOtherNames ==
    [][\A t \in Threads :
          (pc'[t] # pc[t] /\ pc[t] \in {"copy", "moveraw"}
              /\ validated[Cur(t)] = None /\ raw[Cur(t)] = None) =>
                  /\ ContentsIn(validated) \subseteq ContentsIn(validated')
                  /\ ContentsIn(raw) \subseteq ContentsIn(raw')]_vars

\* a file has been ingested with outcome success and a later file of another
\* name has been ingested too; both are in the validated and the raw tree
TwoFilesKept ==
    \E n, m \in Names :
        /\ n # m
        /\ validated[n] # None /\ raw[n] # None
        /\ validated[m] # None /\ raw[m] # None
        /\ processed_count = 2

\* no two cycles are in progress at once
Sequential == ~(InCycle("main") /\ InCycle("timer"))

\* the interval job fires when the initial cycle of start() has ended
TimerFireSequential == ~InCycle("main") /\ TimerFire

\* the program with its cycles run one after the other
SeqNext ==
    \/ \E d \in Drops : Arrive(d[1], d[2])
    \/ create_handler
    \/ health_check
    \/ start
    \/ TimerFireSequential
    \/ Signal
    \/ stop
    \/ close
    \/ \E t \in Threads : Step(t)

SeqSpec == Init /\ [][SeqNext]_vars

\* C36: with cycles run sequentially, every file in the validated tree has a
\* metadata record with status validated and the file's content hash in
\* storage: a call copies the file there only after it has stored the record.
C36_ValidatedFileHasRecord ==
    \A n \in Present(validated) :
        \E r \in records : r.status = "validated" /\ r.file_hash = validated[n]

\* C36 witness: the cycle of the interval job, run after the initial cycle had
\* ended, has copied a file into the validated tree, and storage holds its record
C36_Witness ==
    /\ cycles = 1
    /\ \E n \in Present(validated) :
         /\ att["timer"].relocated = {"validated", "raw"}
         /\ Cur("timer") = n
         /\ \E r \in records : r.file_hash = validated[n] /\ r.file_name = n

\* the program after construction, with no failure of storage or of the
\* filesystem left to happen
LiveInit ==
    /\ backend \in Backends
    /\ handler = None
    /\ uniqueIndex = FALSE
    /\ made = 0
    /\ self_db = 0
    /\ pc = [t \in Threads |-> IF t = "main" THEN "boot" ELSE "idle"]
    /\ incoming = EmptyDir
    /\ arrivals = 0
    /\ db = [b \in Backends |-> EmptyStore]
    /\ resp = [b \in Backends |-> NoResp]
    /\ records = {}
    /\ logs = EmptyBag
    /\ validated = EmptyDir
    /\ raw = EmptyDir
    /\ failed = EmptyDir
    /\ is_running = FALSE
    /\ job = FALSE
    /\ processed_count = 0
    /\ failed_count = 0
    /\ duplicate_count = 0
    /\ returns = 0
    /\ files = [t \in Threads |-> <<>>]
    /\ idx = [t \in Threads |-> 0]
    /\ submitted = [t \in Threads |-> <<>>]
    /\ outcomes = [t \in Threads |-> <<>>]
    /\ result = [t \in Threads |-> "unknown"]
    /\ metadata = [t \in Threads |-> NoMetadata]
    /\ reg = [t \in Threads |-> 0]
    /\ att = [t \in Threads |-> NoAttempt]
    /\ cycles = 0
    /\ faults = MaxFaults
    /\ calls = 0
    /\ last = NoCall
    /\ early = [t \in Threads |-> FALSE]
    /\ now = Noon
    /\ computed = {}

\* a step of _ingest_files or of process_file in which no exception escapes
LiveStep(t) ==
    \/ IngestList(t)
    \/ Validate(t)
    \/ Extract(t)
    \/ Dedup(t)
    \/ Insert(t)
    \/ Copy(t)
    \/ MoveRaw(t)
    \/ MoveToFailed(t)
    \/ BumpRead(t)
    \/ BumpWrite(t)
    \/ LoopNext(t)
    \/ CycleStats(t)

\* the program while the scheduler runs: no signal arrives
LiveNext ==
    \/ \E d \in Drops : Arrive(d[1], d[2])
    \/ create_handler
    \/ health_check
    \/ start
    \/ TimerFire
    \/ \E t \in Threads : LiveStep(t)

\* the main thread and the job's thread keep running and the interval trigger
\* keeps firing (each of these steps moves the position of its thread)
LiveSpec ==
    /\ LiveInit
    /\ [][LiveNext]_vars
    /\ WF_pc(create_handler)
    /\ WF_pc(health_check)
    /\ WF_pc(start)
    /\ WF_pc(TimerFire)
    /\ \A t \in Threads : WF_pc(LiveStep(t))

\* the drops of a valid file: a type with an extractor and a content that
\* validates
ValidDrops ==
    {d \in Drops : detect_file_type(d[1]) \in EXTRACTORS /\ d[2] # "zero"}

\* the scheduler runs with a firing of the interval job still to come, and the
\* file n with content c is in incoming while storage has no record of c
Placed(n, c) ==
    /\ is_running
    /\ cycles < MaxCycles
    /\ incoming[n] = c
    /\ find_by_hash(c) = {}

\* a call on the file n has returned success and storage holds exactly one
\* record of c, or the record of c went to another file with the same content
Ingested(n, c) ==
    \/ \E t \in Threads :
         /\ Returned(t)
         /\ Cur(t) = n
         /\ result[t] = "success"
         /\ Cardinality(find_by_hash(c)) = 1
    \/ \E r \in find_by_hash(c) : r.file_name # n

\* C37: while the scheduler runs and the operations of storage and of the
\* filesystem succeed, every valid file placed in incoming whose content hash
\* storage does not hold, one that arrives during a cycle included, is
\* eventually processed with outcome success and has exactly one metadata
\* record.
C37_ValidFileEventuallyIngested ==
    \A d \in ValidDrops : Placed(d[1], d[2]) ~> Ingested(d[1], d[2])

\* the running program when a firing of the interval job waits for the cycle
\* of start to end
LiveSeqNext ==
    \/ \E d \in Drops : Arrive(d[1], d[2])
    \/ create_handler
    \/ health_check
    \/ start
    \/ TimerFireSequential
    \/ \E t \in Threads : LiveStep(t)

LiveSeqSpec ==
    /\ LiveInit
    /\ [][LiveSeqNext]_vars
    /\ WF_pc(create_handler)
    /\ WF_pc(health_check)
    /\ WF_pc(start)
    /\ WF_pc(TimerFireSequential)
    /\ \A t \in Threads : WF_pc(LiveStep(t))

\* what holds of C37: on MongoDB, when the cycles do not overlap, a valid file
\* placed in incoming is eventually ingested
ValidFileEventuallyIngestedInTurn ==
    \A d \in ValidDrops :
        (backend = "mongodb" /\ Placed(d[1], d[2])) ~> Ingested(d[1], d[2])

\* a file that arrived during the cycle of start was ingested by the cycle of
\* the interval job
IngestedBySecondCycle ==
    /\ backend = "mongodb"
    /\ Returned("timer")
    /\ result["timer"] = "success"
    /\ \A i \in 1..Len(submitted["main"]) : submitted["main"][i] # Cur("timer")
    /\ Cardinality(find_by_hash(validated[Cur("timer")])) = 1

\* C38: at most one storage handle is registered at any time, and the
\* deduplication gate and the processor use the same handle in every attempt:
\* while a process_file call is in progress a handle is registered and it is the
\* one the processor took at construction; a handle is registered only by a
\* create_handler that constructed it and did not raise, never beside one that
\* is registered already; a create_handler that raised leaves none registered;
\* and after close() none is registered.
C38_OneHandleForEveryAttempt ==
    /\ [](\A t \in Threads : InCall(t) => (get_handler # 0 /\ self_db = get_handler))
    /\ [](AfterClose => get_handler = 0)
    /\ [][ /\ (handler = None /\ handler' # None) =>
                (pc["main"] = "boot" /\ pc'["main"] = "health" /\ made' = made + 1)
           /\ handler # None => made' = made
           /\ (pc["main"] = "boot" /\ pc'["main"] = "exited") => handler' = None
           /\ (pc["main"] \in {"close", "finclose"} /\ pc'["main"] # pc["main"]) =>
                handler' = None ]_vars

\* C38 witness: the process has shut down through close() after calls that
\* stored records were made over the one handle ever constructed.
C38_Witness ==
    /\ pc["main"] = "done"
    /\ get_handler = 0
    /\ made = 1
    /\ self_db = made
    /\ records # {}
    /\ returns > 0

\* a caller of DatabaseFactory: create_handler(), close() and the construction
\* of an IngestionProcessor in any order
CallCreateHandler ==
    /\ calls < MaxCalls
    /\ calls' = calls + 1
    /\ \E raised \in BOOLEAN : DatabaseFactory_create_handler(raised)
    /\ UNCHANGED << dbVars, early, clockVars, backend, self_db, storageVars, incoming,
                    treeVars, counterVars, is_running, job, cycles, last, pc, files,
                    idx, submitted, outcomes, result, metadata, reg, att, arrivals >>

CallClose ==
    /\ calls < MaxCalls
    /\ calls' = calls + 1
    /\ handler' = None
    /\ UNCHANGED << dbVars, early, clockVars, backend, uniqueIndex, made, self_db,
                    storageVars, incoming, treeVars, counterVars, is_running, job,
                    cycles, last, pc, files, idx, submitted, outcomes, result,
                    metadata, reg, att, arrivals, faults >>

CallNewProcessor ==
    /\ calls < MaxCalls
    /\ calls' = calls + 1
    /\ self_db' = get_handler
    /\ UNCHANGED << dbVars, early, clockVars, backend, handler, uniqueIndex, made,
                    storageVars, incoming, treeVars, counterVars, is_running, job,
                    cycles, last, pc, files, idx, submitted, outcomes, result,
                    metadata, reg, att, arrivals, faults >>

FactoryInit ==
    /\ backend \in Backends
    /\ handler = None
    /\ uniqueIndex = FALSE
    /\ made = 0
    /\ self_db = 0
    /\ pc = [t \in Threads |-> IF t = "main" THEN "sleep" ELSE "idle"]
    /\ incoming = EmptyDir
    /\ arrivals = 0
    /\ db = [b \in Backends |-> EmptyStore]
    /\ resp = [b \in Backends |-> NoResp]
    /\ InitRest

FactoryNext ==
    \/ CallCreateHandler
    \/ CallClose
    \/ CallNewProcessor

FactorySpec == FactoryInit /\ [][FactoryNext]_vars

\* the factory under any caller: create_handler over a registered instance
\* constructs nothing and leaves it registered, a new instance is registered
\* only when none was and only by a call without failed connect, and a handler
\* constructed but not registered is one whose connect failed
FactoryKeepsOneInstance ==
    [][ /\ (handler # None /\ handler' # None) => made' = made
        /\ (handler = None /\ handler' # None) => made' = made + 1
        /\ (made' # made /\ handler' = None) => faults' = faults + 1
        /\ handler # None => made' = made ]_vars

\* create_handler has been called with an instance registered and returned it
SecondCreateReturnsInstance == calls = 2 /\ made = 1 /\ get_handler = 1 /\ self_db = 0

=============================================================================
